---- MODULE Spec2Model ----
(***************************************************************************)
(* A model of the ops-cli client facade (apis/client_api.py), the plugin   *)
(* registry singleton (apis/core/plugin.py) and the plugin base class      *)
(* (apis/core/plugin_base.py).                                             *)
(*                                                                         *)
(* Python strings that the code transforms (type names, plugin names) are  *)
(* sequences of one-character strings; other names are TLA+ strings.       *)
(* Python objects are records with a tag t; objects whose identity matters *)
(* carry an id that is fresh among the live objects of their kind.         *)
(***************************************************************************)
EXTENDS Naturals, Sequences, FiniteSets, TLC

VARIABLES
    _app,            \* PluginRegistry._app (class attribute)
    _instance,       \* PluginRegistry._instance (class attribute)
    _plugins,        \* _plugins of the registry instance: plugin name -> plugin
    groups,          \* registered_groups of each host application (typer)
    made,            \* number of PluginRegistry objects constructed so far
    plugin_modules,  \* the modules pkgutil finds in the plugins directory
    ext_modules,     \* the modules pkgutil finds in the extensions directory
    clients,         \* the ClientApi objects constructed so far
    typeName,        \* __class__.__name__ of the plugin whose name is read
    derived,         \* what PluginBase.name returned for typeName
    last,            \* the last call: operation, arguments, exception, result
    environ,         \* os.environ
    config_file,     \* the file at ~/.config/<client_name>/config.yaml
    _client,         \* apis.core.client._client (module global)
    _plugins_loaded, \* apis.core.client._plugins_loaded (module global)
    pc,              \* how far the start of cli.py has got
    sshs,            \* the SSHApi objects constructed so far
    service,         \* the service object in use, with the entries its log service holds
    conn,            \* the database behind PostgreSQLApi.conn and its open transaction
    environment_types \* EnvironmentTypeManager.environment_types

vars == <<_app, _instance, _plugins, groups, made, plugin_modules, ext_modules,
          clients, typeName, derived, last, environ, config_file, _client,
          _plugins_loaded, pc, sshs, service, conn, environment_types>>

\* the state outside the facade and the registry
startup_vars == <<config_file, _client, _plugins_loaded, pc>>
outside_vars == <<environ, sshs, service>>
data_vars == <<conn, environment_types>>

----------------------------------------------------------------------------
(* Bounds of the model *)

MaxModules == 3
MaxExtModules == 2
MaxClients == 2
MaxParts == 3
MaxSsh == 3
MaxLog == 2
MaxCommands == 5
MaxRecords == 2
MaxBatch == 3

----------------------------------------------------------------------------
(* Python values *)

None == [t |-> "None"]
NoExc == "None"

EmptyDict == [k \in {} |-> None]

\* d[k] = v on a dict
DictSet(d, k, v) == [x \in DOMAIN d \cup {k} |-> IF x = k THEN v ELSE d[x]]

\* d.get(k)
DictGet(d, k) == IF k \in DOMAIN d THEN d[k] ELSE None

\* the smallest id no object of the set carries
FreshId(objs) == CHOOSE n \in 1..(Cardinality(objs) + 1) :
                    /\ \A o \in objs : o.id # n
                    /\ \A m \in 1..(n - 1) : \E o \in objs : o.id = m

----------------------------------------------------------------------------
(* str operations on sequences of characters *)

LowerOf == [A |-> "a", B |-> "b", C |-> "c", D |-> "d", E |-> "e", F |-> "f",
            G |-> "g", H |-> "h", I |-> "i", J |-> "j", K |-> "k", L |-> "l",
            M |-> "m", N |-> "n", O |-> "o", P |-> "p", Q |-> "q", R |-> "r",
            S |-> "s", T |-> "t", U |-> "u", V |-> "v", W |-> "w", X |-> "x",
            Y |-> "y", Z |-> "z"]

\* str.lower()
Lower(s) == [i \in 1..Len(s) |-> IF s[i] \in DOMAIN LowerOf THEN LowerOf[s[i]] ELSE s[i]]

\* str.endswith(suffix)
EndsWith(s, suffix) ==
    /\ Len(s) >= Len(suffix)
    /\ SubSeq(s, Len(s) - Len(suffix) + 1, Len(s)) = suffix

\* s[:-n] for n > 0
DropLast(s, n) == IF Len(s) <= n THEN <<>> ELSE SubSeq(s, 1, Len(s) - n)

StartsWith(s, prefix) ==
    /\ Len(s) >= Len(prefix)
    /\ SubSeq(s, 1, Len(prefix)) = prefix

\* str.replace(old, new) for a non-empty old: leftmost, non-overlapping
RECURSIVE Replace(_, _, _)
Replace(s, old, new) ==
    IF s = <<>> THEN <<>>
    ELSE IF StartsWith(s, old)
         THEN new \o Replace(SubSeq(s, Len(old) + 1, Len(s)), old, new)
         ELSE <<Head(s)>> \o Replace(Tail(s), old, new)

s_plugin == <<"p", "l", "u", "g", "i", "n">>

\* PluginBase.name of a plugin whose class is named typ, as apis/plugin_base.py
\* (the older base class) derives it
PluginNameReplaceAll(typ) == Replace(Lower(typ), s_plugin, <<>>)

\* PluginBase.name without the removal of the suffix
PluginNameKeepSuffix(typ) == Replace(Lower(typ), <<"_">>, <<"-">>)

\* PluginBase.name of a plugin whose class is named typ
PluginName(typ) ==
    LET name == Lower(typ)
        stripped == IF EndsWith(name, s_plugin) THEN DropLast(name, 6) ELSE name
    IN  Replace(stripped, <<"_">>, <<"-">>)

----------------------------------------------------------------------------
(* Plugins: the classes of the plugins directory, and a third-party class *)

s_Example == <<"E", "x", "a", "m", "p", "l", "e">>
s_Resource == <<"R", "e", "s", "o", "u", "r", "c", "e">>
s_Manager == <<"M", "a", "n", "a", "g", "e", "r">>
s_Plugin == <<"P", "l", "u", "g", "i", "n">>
s_Custom_Tool == <<"C", "u", "s", "t", "o", "m", "_", "T", "o", "o", "l">>
s_Legacy == <<"L", "e", "g", "a", "c", "y">>

ExamplePlugin == s_Example \o s_Plugin
ResourceManagerPlugin == s_Resource \o s_Manager \o s_Plugin
\* a third-party plugin class that registers one of its commands with hidden=True
Custom_Tool == s_Custom_Tool
\* a third-party plugin class whose second command carries a keyword typer's
\* command() does not take
LegacyPlugin == s_Legacy \o s_Plugin

PluginTypes == {ExamplePlugin, ResourceManagerPlugin, Custom_Tool, LegacyPlugin}

\* PluginCommand(name, callback, help, **typer_options)
PluginCommand(name, callback, help, typer_options) ==
    [name |-> name, callback |-> callback, help |-> help, options |-> typer_options]

\* the keyword arguments typer.Typer.command() accepts besides name and help
TyperCommandOptions ==
    {"cls", "context_settings", "epilog", "short_help", "options_metavar",
     "add_help_option", "no_args_is_help", "hidden", "deprecated", "rich_help_panel"}

\* plugin._commands after setup(): the register_command calls of the class, in order
\* (register_command stores under the command's name; the names of one class differ)
SetupCommands(typ) ==
    IF typ = ExamplePlugin THEN
        << PluginCommand("hello", "hello_command", "Say hello", {}),
           PluginCommand("create-issue", "create_issue_command",
                         "Create Jira issue with GitHub info", {}) >>
    ELSE IF typ = ResourceManagerPlugin THEN
        << PluginCommand("list", "list_resources", "List cloud resources", {}),
           PluginCommand("github", "list_github", "List GitHub resources", {}),
           PluginCommand("kubernetes", "list_kubernetes", "List Kubernetes resources", {}),
           PluginCommand("pull-requests", "list_pull_requests",
                         "List GitHub pull requests", {}) >>
    ELSE IF typ = Custom_Tool THEN
        << PluginCommand("run", "run", "Run the tool", {}),
           PluginCommand("debug", "debug", "", {"hidden"}) >>
    ELSE
        << PluginCommand("status", "status", "Show status", {}),
           PluginCommand("sync", "sync", "Synchronise", {"aliases"}),
           PluginCommand("purge", "purge", "Purge", {}) >>

\* a plugin object: the result of cls(client) followed by setup(), for the class
\* typ of plugin module number module (0: a class of the caller's own)
Plugin(typ, module, client, id) ==
    [t |-> "Plugin", cls |-> typ, module |-> module, client |-> client,
     commands |-> SetupCommands(typ), id |-> id]

----------------------------------------------------------------------------
(* PluginRegistry *)

\* typer.Typer applications a caller may hand to PluginRegistry.initialize
App(name) == [t |-> "Typer", name |-> name]
Apps == {App("plugins"), App("other")}

\* the registry as register_plugin reads and writes it
Registry(plugins, grps) == [_plugins |-> plugins, groups |-> grps]

\* typer.Typer(name=..., help=...) with the commands registered on it so far
Typer(name, commands) ==
    [name |-> name, help |-> <<"Commands for ">> \o name \o <<" plugin">>,
     commands |-> commands]

\* the loop of register_plugin from command i on: every command registered on
\* the sub-group, or the TypeError of the first command typer rejects
RECURSIVE RegisterCommands(_, _, _)
RegisterCommands(cmds, i, plugin_app) ==
    IF i > Len(cmds) THEN [exc |-> NoExc, plugin_app |-> plugin_app]
    ELSE IF ~(cmds[i].options \subseteq TyperCommandOptions)
         THEN [exc |-> "TypeError", plugin_app |-> plugin_app]
         ELSE RegisterCommands(cmds, i + 1,
                  [plugin_app EXCEPT !.commands = Append(@,
                      [name |-> cmds[i].name, help |-> cmds[i].help,
                       options |-> cmds[i].options, callback |-> cmds[i].callback])])

\* register_plugin where a name already registered is registered again: the
\* sub-group is mounted a second time and the stored plugin replaced
register_plugin_overwrite(reg, app, plugin) ==
    LET name == PluginName(plugin.cls)
        r == RegisterCommands(plugin.commands, 1, Typer(name, <<>>))
    IN  IF r.exc # NoExc THEN [exc |-> r.exc, reg |-> reg]
        ELSE [exc |-> NoExc,
              reg |-> Registry(DictSet(reg._plugins, name, plugin),
                               [reg.groups EXCEPT ![app] = Append(@, r.plugin_app)])]

\* register_plugin where the sub-group is mounted before its commands are
\* registered
register_plugin_mount_first(reg, app, plugin) ==
    LET name == PluginName(plugin.cls)
        r == RegisterCommands(plugin.commands, 1, Typer(name, <<>>))
        mounted == [reg.groups EXCEPT ![app] = Append(@, r.plugin_app)]
    IN  IF name \in DOMAIN reg._plugins THEN [exc |-> "ValueError", reg |-> reg]
        ELSE IF r.exc # NoExc
             THEN [exc |-> r.exc, reg |-> Registry(reg._plugins, mounted)]
             ELSE [exc |-> NoExc,
                   reg |-> Registry(DictSet(reg._plugins, name, plugin), mounted)]

\* PluginRegistry.register_plugin(plugin) with _app = app: the exception it
\* raises and the registry it leaves
register_plugin(reg, app, plugin) ==
    LET name == PluginName(plugin.cls)
        r == RegisterCommands(plugin.commands, 1, Typer(name, <<>>))
    IN  IF name \in DOMAIN reg._plugins THEN [exc |-> "ValueError", reg |-> reg]
        ELSE IF r.exc # NoExc THEN [exc |-> r.exc, reg |-> reg]
        ELSE IF app = None THEN [exc |-> "RuntimeError", reg |-> reg]
        ELSE [exc |-> NoExc,
              reg |-> Registry(DictSet(reg._plugins, name, plugin),
                               [reg.groups EXCEPT ![app] = Append(@, r.plugin_app)])]


\* self._commands[name] = command on the commands of a plugin, kept in the
\* order of the dict: a name already there keeps its place
SetCommand(cmds, command) ==
    IF \E i \in DOMAIN cmds : cmds[i].name = command.name
    THEN [i \in DOMAIN cmds |-> IF cmds[i].name = command.name THEN command ELSE cmds[i]]
    ELSE Append(cmds, command)

\* register_command that also registers the command on the sub-group mounted
\* for the plugin
register_command_live(reg, pname, name, callback, help, typer_options) ==
    LET command == PluginCommand(name, callback, help, typer_options)
        live == [name |-> name, help |-> help, options |-> typer_options,
                 callback |-> callback]
    IN  Registry([reg._plugins EXCEPT ![pname].commands = SetCommand(@, command)],
                 [a \in DOMAIN reg.groups |->
                     [k \in DOMAIN reg.groups[a] |->
                         IF reg.groups[a][k].name = PluginName(reg._plugins[pname].cls)
                         THEN [reg.groups[a][k] EXCEPT !.commands = Append(@, live)]
                         ELSE reg.groups[a][k]]])

\* plugin.register_command(name, callback, help, **typer_options) for the
\* plugin registered as pname: the registry afterwards
register_command(reg, pname, name, callback, help, typer_options) ==
    LET command == PluginCommand(name, callback, help, typer_options)
    IN  Registry([reg._plugins EXCEPT ![pname].commands = SetCommand(@, command)],
                 reg.groups)

\* cls(): a registry object, the n-th one constructed
PluginRegistry(n) == [t |-> "PluginRegistry", id |-> n]

\* get_instance that constructs a registry on every call
get_instance_uncached(app, inst, n) ==
    IF app = None
    THEN [exc |-> "RuntimeError", ret |-> None, _instance |-> inst, made |-> n]
    ELSE [exc |-> NoExc, ret |-> PluginRegistry(n + 1),
          _instance |-> PluginRegistry(n + 1), made |-> n + 1]

\* PluginRegistry.get_instance() with _app = app, _instance = inst and n
\* registries constructed so far
get_instance(app, inst, n) ==
    IF inst = None
    THEN IF app = None
         THEN [exc |-> "RuntimeError", ret |-> None, _instance |-> inst, made |-> n]
         ELSE [exc |-> NoExc, ret |-> PluginRegistry(n + 1),
               _instance |-> PluginRegistry(n + 1), made |-> n + 1]
    ELSE [exc |-> NoExc, ret |-> inst, _instance |-> inst, made |-> n]

----------------------------------------------------------------------------
(* Discovery of plugin modules *)

\* what importing a module of the plugins directory and calling its hook does
ImportError == [kind |-> "import_error"]
NoHook == [kind |-> "no_hook"]
HookRaises == [kind |-> "hook_raises"]
HookReturns(typ) == [kind |-> "ok", cls |-> typ]

\* the plugin classes the modules of a plugins directory define
DiscoveredTypes == {ExamplePlugin, ResourceManagerPlugin, LegacyPlugin}

PluginModules ==
    {ImportError, NoHook, HookRaises} \cup {HookReturns(typ) : typ \in DiscoveredTypes}

\* the plugins of a registry
Live(plugins) == {plugins[n] : n \in DOMAIN plugins}

\* the loop of _load_plugins with the try around the whole loop instead of
\* around one module: the first failure ends the pass
RECURSIVE LoadPluginsAbort(_, _, _, _, _, _, _)
LoadPluginsAbort(mods, i, self, app, reg, loaded_plugins, out) ==
    IF i > Len(mods) THEN [reg |-> reg, out |-> out]
    ELSE IF i \in loaded_plugins \/ mods[i].kind = "no_hook"
         THEN LoadPluginsAbort(mods, i + 1, self, app, reg, loaded_plugins, out)
    ELSE IF mods[i].kind = "import_error"
         THEN [reg |-> reg, out |-> Append(out, <<i, "ImportError">>)]
    ELSE IF mods[i].kind = "hook_raises"
         THEN [reg |-> reg, out |-> Append(out, <<i, "Exception">>)]
    ELSE LET plugin == Plugin(mods[i].cls, i, self, FreshId(Live(reg._plugins)))
             r == register_plugin(reg, app, plugin)
         IN  IF r.exc # NoExc
             THEN [reg |-> r.reg, out |-> Append(out, <<i, r.exc>>)]
             ELSE LoadPluginsAbort(mods, i + 1, self, app, r.reg,
                                   loaded_plugins \cup {i}, out)

\* the body of the for loop of _load_plugins from module i on; out collects
\* the modules reported as "Failed to load plugin"
RECURSIVE LoadPluginsFrom(_, _, _, _, _, _, _)
LoadPluginsFrom(mods, i, self, app, reg, loaded_plugins, out) ==
    IF i > Len(mods) THEN [reg |-> reg, out |-> out]
    ELSE IF i \in loaded_plugins
         THEN LoadPluginsFrom(mods, i + 1, self, app, reg, loaded_plugins, out)
    ELSE IF mods[i].kind = "import_error"
         THEN LoadPluginsFrom(mods, i + 1, self, app, reg, loaded_plugins,
                              Append(out, <<i, "ImportError">>))
    ELSE IF mods[i].kind = "no_hook"
         THEN LoadPluginsFrom(mods, i + 1, self, app, reg, loaded_plugins, out)
    ELSE IF mods[i].kind = "hook_raises"
         THEN LoadPluginsFrom(mods, i + 1, self, app, reg, loaded_plugins,
                              Append(out, <<i, "Exception">>))
    ELSE LET plugin == Plugin(mods[i].cls, i, self, FreshId(Live(reg._plugins)))
             r == register_plugin(reg, app, plugin)
         IN  IF r.exc # NoExc
             THEN LoadPluginsFrom(mods, i + 1, self, app, r.reg, loaded_plugins,
                                  Append(out, <<i, r.exc>>))
             ELSE LoadPluginsFrom(mods, i + 1, self, app, r.reg,
                                  loaded_plugins \cup {i}, out)

\* the registry-side state of the process
Process(app, inst, n, reg) == [_app |-> app, _instance |-> inst, made |-> n, reg |-> reg]

\* the registry get_instance returned: a registry just constructed has the empty
\* _plugins of __init__
RegistryOf(g, st) ==
    IF g.made # st.made THEN Registry(EmptyDict, st.reg.groups) ELSE st.reg

\* _load_plugins without the except RuntimeError: the failure of get_instance
\* reaches the caller
_load_plugins_uncaught(mods, self, st) ==
    LET g == get_instance(st._app, st._instance, st.made)
    IN  IF g.exc = "RuntimeError"
        THEN [exc |-> "RuntimeError", st |-> st, out |-> <<>>, skipped |-> FALSE]
        ELSE LET r == LoadPluginsFrom(mods, 1, self, st._app,
                                      RegistryOf(g, st), {}, <<>>)
             IN  [exc |-> NoExc,
                  st |-> Process(st._app, g._instance, g.made, r.reg),
                  out |-> r.out, skipped |-> FALSE]

\* ClientApi._load_plugins(self) in process state st: the state it leaves, the
\* exception it raises and the failures it prints
_load_plugins(mods, self, st) ==
    LET g == get_instance(st._app, st._instance, st.made)
    IN  IF g.exc = "RuntimeError"
        THEN [exc |-> NoExc, st |-> st, out |-> <<>>, skipped |-> TRUE]
        ELSE LET r == LoadPluginsFrom(mods, 1, self, st._app,
                                      RegistryOf(g, st), {}, <<>>)
             IN  [exc |-> NoExc,
                  st |-> Process(st._app, g._instance, g.made, r.reg),
                  out |-> r.out, skipped |-> FALSE]

----------------------------------------------------------------------------
(* ClientConfig *)

ConfigFields ==
    {"GITHUB_TOKEN", "JIRA_URL", "JIRA_USERNAME", "JIRA_TOKEN", "CONFLUENCE_URL",
     "CONFLUENCE_USERNAME", "CONFLUENCE_TOKEN", "GOOGLE_CREDENTIALS_FILE",
     "KUBE_CONFIG_PATH", "KUBE_CONTEXT", "OPENSEARCH_INITIAL_ADMIN_PASSWORD"}

Str(v) == [t |-> "str", v |-> v]

\* ClientConfig(**given): every field not given is None
ClientConfig(given) ==
    [f \in ConfigFields |-> IF f \in DOMAIN given THEN given[f] ELSE None]

\* hasattr(config, attr): a pydantic model has its declared fields, under the
\* names they are declared with
HasAttr(config, attr) == attr \in DOMAIN config

\* bool(v) of None or a str
Truthy(v) == v # None /\ v # Str("")

\* the fields each validated capability needs
Required ==
    [github |-> {"GITHUB_TOKEN"},
     jira |-> {"JIRA_URL", "JIRA_USERNAME", "JIRA_TOKEN"},
     confluence |-> {"CONFLUENCE_URL", "CONFLUENCE_USERNAME", "CONFLUENCE_TOKEN"}]

\* the configurations a caller constructs a facade with
Configs ==
    { ClientConfig(EmptyDict),
      ClientConfig([GITHUB_TOKEN |-> Str("ghp")]),
      ClientConfig([GITHUB_TOKEN |-> Str("")]),
      ClientConfig([JIRA_URL |-> Str("https://jira"), JIRA_USERNAME |-> Str("me")]),
      ClientConfig([GITHUB_TOKEN |-> Str("ghp"),
                    JIRA_URL |-> Str("https://jira"), JIRA_USERNAME |-> Str("me"),
                    JIRA_TOKEN |-> Str("jt"),
                    CONFLUENCE_URL |-> Str("https://wiki"),
                    CONFLUENCE_USERNAME |-> Str("me"), CONFLUENCE_TOKEN |-> Str("ct"),
                    KUBE_CONTEXT |-> Str("prod")]) }

----------------------------------------------------------------------------
(* ClientApi: the configuration file and the environment *)

Int(v) == [t |-> "int", v |-> v]

\* what open(filename) and yaml.safe_load(file) give for a file: the file does
\* not exist, is not YAML, holds no mapping (an empty file loads as None), or
\* holds a mapping of keys to scalars
NoFile == [kind |-> "missing"]
NotYaml == [kind |-> "invalid"]
NotMapping == [kind |-> "not_mapping"]
Mapping(data) == [kind |-> "mapping", data |-> data]

\* the files load_config is called with
Files ==
    { NoFile, NotYaml, NotMapping,
      Mapping([GITHUB_TOKEN |-> Str("ghp2")]),
      Mapping([JIRA_URL |-> Str("https://jira2"), github_token |-> Str("lower")]),
      Mapping([GITHUB_TOKEN |-> Str("ghp2"), JIRA_URL |-> Int(8080)]),
      Mapping([KUBE_CONTEXT |-> None, JIRA_TOKEN |-> Str("")]) }

\* pydantic accepts v for a field declared Optional[str]
IsOptionalStr(v) == v.t \in {"str", "None"}

\* the exception open, yaml.safe_load or ClientConfig(**...) raises for a file
LoadError(file) ==
    IF file.kind = "missing" THEN "FileNotFoundError"
    ELSE IF file.kind = "invalid" THEN "YAMLError"
    ELSE IF file.kind = "not_mapping" THEN "TypeError"
    ELSE IF \E f \in DOMAIN file.data \cap ConfigFields : ~IsOptionalStr(file.data[f])
         THEN "ValidationError"
    ELSE NoExc

\* load_config where the fields the file lacks keep the values held before
load_config_merge(self, file) ==
    IF LoadError(file) # NoExc THEN [exc |-> LoadError(file), self |-> self]
    ELSE [exc |-> NoExc,
          self |-> [self EXCEPT !.config =
                       [f \in ConfigFields |->
                           IF f \in DOMAIN file.data THEN file.data[f] ELSE @[f]]]]

\* load_config that also drops the capabilities constructed so far
load_config_reset(self, file) ==
    IF LoadError(file) # NoExc THEN [exc |-> LoadError(file), self |-> self]
    ELSE [exc |-> NoExc,
          self |-> [self EXCEPT !.config = ClientConfig(file.data), !._apis = EmptyDict]]

\* ClientApi.load_config(filename) on facade self: the exception raised and
\* the facade afterwards
load_config(self, file) ==
    IF LoadError(file) # NoExc THEN [exc |-> LoadError(file), self |-> self]
    ELSE [exc |-> NoExc, self |-> [self EXCEPT !.config = ClientConfig(file.data)]]

\* str(value) of a field value; the entries of os.environ are strings
PyStr(value) == IF value.t = "None" THEN "None" ELSE value.v

\* config.model_dump(): every declared field with its value
model_dump(config) == [f \in ConfigFields |-> config[f]]

\* export_config without the test for None
export_config_all(config, env) ==
    LET dump == model_dump(config)
    IN  [n \in DOMAIN env \cup DOMAIN dump |->
            IF n \in DOMAIN dump THEN PyStr(dump[n]) ELSE env[n]]

\* ClientApi.export_config() with os.environ = env: os.environ afterwards
export_config(config, env) ==
    LET dump == model_dump(config)
        set == {f \in DOMAIN dump : dump[f] # None}
    IN  [n \in DOMAIN env \cup set |-> IF n \in set THEN PyStr(dump[n]) ELSE env[n]]

\* os.getenv(name)
getenv(env, name) == IF name \in DOMAIN env THEN Str(env[name]) ELSE None

\* the environments a process starts in
Environs == {EmptyDict, [GITHUB_TOKEN |-> "old", JIRA_URL |-> "https://old", PATH |-> "/bin"]}

----------------------------------------------------------------------------
(* ClientApi: the cached capabilities *)

Caps == {"github", "jira", "confluence", "docker", "kubernetes"}

\* what a capability accessor does: the exception it raises, the object it
\* returns, the cache and construction count it leaves, and whether it called
\* the capability's constructor
Outcome(exc, ret, apis, built, ctor) ==
    [exc |-> exc, ret |-> ret, _apis |-> apis, built |-> built, ctor |-> ctor]

Raises(self, exc, ctor) == Outcome(exc, None, self._apis, self.built, ctor)

\* self._apis[cap] = obj; return self._apis[cap], obj the result of a constructor
Constructed(self, cap, obj) ==
    Outcome(NoExc, obj, DictSet(self._apis, cap, obj),
            [self.built EXCEPT ![cap] = @ + 1], TRUE)

\* the object a constructor call of facade self returns
New(self, cap, class, args) ==
    [t |-> class, args |-> args, id |-> self.built[cap] + 1]

\* ClientApi.github; ctor_ok: GithubApi(...) returns rather than raises
github(self, ctor_ok) ==
    IF "github" \notin DOMAIN self._apis
    THEN IF ~HasAttr(self.config, "github_token") THEN Raises(self, "AttributeError", FALSE)
         ELSE IF ~Truthy(self.config["github_token"]) THEN Raises(self, "ValueError", FALSE)
         ELSE IF ~ctor_ok THEN Raises(self, "Exception", TRUE)
         ELSE Constructed(self, "github",
                  New(self, "github", "GithubApi", <<self.config["github_token"]>>))
    ELSE Outcome(NoExc, self._apis["github"], self._apis, self.built, FALSE)

\* ClientApi.jira
jira(self, ctor_ok) ==
    IF "jira" \notin DOMAIN self._apis
    THEN IF ~HasAttr(self.config, "jira_url") THEN Raises(self, "AttributeError", FALSE)
         ELSE IF ~HasAttr(self.config, "jira_username")
              THEN Raises(self, "AttributeError", FALSE)
         ELSE IF ~HasAttr(self.config, "jira_token")
              THEN Raises(self, "AttributeError", FALSE)
         ELSE IF ~(/\ Truthy(self.config["jira_url"])
                   /\ Truthy(self.config["jira_username"])
                   /\ Truthy(self.config["jira_token"]))
              THEN Raises(self, "ValueError", FALSE)
         ELSE IF ~ctor_ok THEN Raises(self, "Exception", TRUE)
         ELSE Constructed(self, "jira",
                  New(self, "jira", "JiraApi",
                      <<self.config["jira_url"], self.config["jira_username"],
                        self.config["jira_token"]>>))
    ELSE Outcome(NoExc, self._apis["jira"], self._apis, self.built, FALSE)

\* ClientApi.confluence
confluence(self, ctor_ok) ==
    IF "confluence" \notin DOMAIN self._apis
    THEN IF ~HasAttr(self.config, "confluence_url")
              THEN Raises(self, "AttributeError", FALSE)
         ELSE IF ~HasAttr(self.config, "confluence_username")
              THEN Raises(self, "AttributeError", FALSE)
         ELSE IF ~HasAttr(self.config, "confluence_token")
              THEN Raises(self, "AttributeError", FALSE)
         ELSE IF ~(/\ Truthy(self.config["confluence_url"])
                   /\ Truthy(self.config["confluence_username"])
                   /\ Truthy(self.config["confluence_token"]))
              THEN Raises(self, "ValueError", FALSE)
         ELSE IF ~ctor_ok THEN Raises(self, "Exception", TRUE)
         ELSE Constructed(self, "confluence",
                  New(self, "confluence", "ConfluenceApi",
                      <<self.config["confluence_url"], self.config["confluence_username"],
                        self.config["confluence_token"]>>))
    ELSE Outcome(NoExc, self._apis["confluence"], self._apis, self.built, FALSE)

\* ClientApi.docker where the cache is never consulted
docker_uncached(self, ctor_ok) ==
    IF ~ctor_ok THEN Raises(self, "Exception", TRUE)
    ELSE Constructed(self, "docker", New(self, "docker", "DockerApi", <<>>))

\* ClientApi.docker
docker(self, ctor_ok) ==
    IF "docker" \notin DOMAIN self._apis
    THEN IF ~ctor_ok THEN Raises(self, "Exception", TRUE)
         ELSE Constructed(self, "docker", New(self, "docker", "DockerApi", <<>>))
    ELSE Outcome(NoExc, self._apis["docker"], self._apis, self.built, FALSE)

\* ClientApi.kubernetes
kubernetes(self, ctor_ok) ==
    IF "kubernetes" \notin DOMAIN self._apis
    THEN IF ~HasAttr(self.config, "kube_context")
              THEN Raises(self, "AttributeError", FALSE)
         ELSE IF ~ctor_ok THEN Raises(self, "Exception", TRUE)
         ELSE Constructed(self, "kubernetes",
                  New(self, "kubernetes", "KubernetesApi", <<self.config["kube_context"]>>))
    ELSE Outcome(NoExc, self._apis["kubernetes"], self._apis, self.built, FALSE)

\* getattr(self, cap) for a cached capability name
Access(self, cap, ctor_ok) ==
    CASE cap = "github" -> github(self, ctor_ok)
      [] cap = "jira" -> jira(self, ctor_ok)
      [] cap = "confluence" -> confluence(self, ctor_ok)
      [] cap = "docker" -> docker(self, ctor_ok)
      [] cap = "kubernetes" -> kubernetes(self, ctor_ok)

----------------------------------------------------------------------------
(* ClientApi.ssh *)

\* the keyword parameters of SSHApi.__init__ besides hostname, and their defaults
SSHApiDefaults == [password |-> None, key_filename |-> None, port |-> Int(22)]
SSHApiParams == {"username"} \cup DOMAIN SSHApiDefaults

\* SSHApi(hostname=hostname, **kwargs): the TypeError of a call that lacks
\* username or passes a keyword __init__ does not take, or the object, the
\* n-th one constructed
SSHApi(hostname, kwargs, n) ==
    IF "username" \notin DOMAIN kwargs \/ ~(DOMAIN kwargs \subseteq SSHApiParams)
    THEN [exc |-> "TypeError", ret |-> None]
    ELSE [exc |-> NoExc,
          ret |-> [t |-> "SSHApi", hostname |-> hostname,
                   username |-> kwargs["username"],
                   password |-> IF "password" \in DOMAIN kwargs
                                THEN kwargs["password"] ELSE SSHApiDefaults["password"],
                   key_filename |-> IF "key_filename" \in DOMAIN kwargs
                                    THEN kwargs["key_filename"]
                                    ELSE SSHApiDefaults["key_filename"],
                   port |-> IF "port" \in DOMAIN kwargs
                            THEN kwargs["port"] ELSE SSHApiDefaults["port"],
                   id |-> n]]

\* ssh that keeps one SSHApi per host in the capability cache
ssh_cached(self, objs, hostname, kwargs) ==
    LET key == "ssh:" \o hostname
        r == SSHApi(hostname, kwargs, Len(objs) + 1)
    IN  IF key \in DOMAIN self._apis
        THEN [exc |-> NoExc, ret |-> self._apis[key], _apis |-> self._apis, sshs |-> objs]
        ELSE IF r.exc # NoExc
             THEN [exc |-> r.exc, ret |-> None, _apis |-> self._apis, sshs |-> objs]
             ELSE [exc |-> NoExc, ret |-> r.ret, _apis |-> DictSet(self._apis, key, r.ret),
                   sshs |-> Append(objs, r.ret)]

\* ClientApi.ssh(hostname, **kwargs) on facade self, objs the SSHApi objects
\* constructed so far
ssh(self, objs, hostname, kwargs) ==
    LET r == SSHApi(hostname, kwargs, Len(objs) + 1)
    IN  IF r.exc # NoExc
        THEN [exc |-> r.exc, ret |-> None, _apis |-> self._apis, sshs |-> objs]
        ELSE [exc |-> NoExc, ret |-> r.ret, _apis |-> self._apis,
              sshs |-> Append(objs, r.ret)]

\* the hosts and the options ssh is called with
Hostnames == {"web1", "db1"}
SshOptions ==
    { [username |-> Str("root")],
      [username |-> Str("ops"), port |-> Int(2222), key_filename |-> Str("id_rsa")],
      EmptyDict,
      [username |-> Str("root"), timeout |-> Int(5)] }

----------------------------------------------------------------------------
(* ClientApi: extensions *)

\* the names pkgutil.iter_modules yields for the extensions directory: distinct,
\* in sorted order
ExtensionModuleNames == <<"cloud_resources", "metrics", "notify", "reports">>

\* what importing a module of the extensions directory and calling its
\* setup_extension hook does
ExtensionModules == {ImportError, NoHook, HookRaises, [kind |-> "ok"]}

\* the object the setup_extension hook of module name returns for facade self
Extension(name, self) == [t |-> "Extension", module |-> name, client |-> self]

\* the objects a caller registers by hand, and the names it uses
ExtObjects == {[t |-> "object", id |-> 1], [t |-> "object", id |-> 2]}
ExtNames == {"cloud_resources"}

\* register_extension that stores unconditionally
register_extension_overwrite(exts, name, extension) ==
    [exc |-> NoExc, _extensions |-> DictSet(exts, name, extension)]

\* ClientApi.register_extension(name, extension) on the _extensions exts
register_extension(exts, name, extension) ==
    IF name \in DOMAIN exts
    THEN [exc |-> "ValueError", _extensions |-> exts]
    ELSE [exc |-> NoExc, _extensions |-> DictSet(exts, name, extension)]

\* get_extension that subscripts the dict: a name not registered is a KeyError
get_extension_subscript(exts, name) ==
    IF name \in DOMAIN exts THEN [exc |-> NoExc, ret |-> exts[name]]
    ELSE [exc |-> "KeyError", ret |-> None]

\* ClientApi.get_extension(name): self._extensions.get(name) raises nothing
get_extension(exts, name) == [exc |-> NoExc, ret |-> DictGet(exts, name)]

\* the names a caller asks for
LookupNames == ExtNames \cup {"metrics", "absent"}

\* _load_extensions whose loop has no try/except: the first failure ends it
RECURSIVE LoadExtensionsUnguarded(_, _, _, _, _)
LoadExtensionsUnguarded(mods, i, self, exts, out) ==
    IF i > Len(mods) THEN [exc |-> NoExc, _extensions |-> exts, out |-> out]
    ELSE LET name == ExtensionModuleNames[i] IN
         IF mods[i].kind = "import_error"
         THEN [exc |-> "ImportError", _extensions |-> exts, out |-> out]
         ELSE IF mods[i].kind = "no_hook"
         THEN LoadExtensionsUnguarded(mods, i + 1, self, exts, out)
         ELSE IF mods[i].kind = "hook_raises"
         THEN [exc |-> "Exception", _extensions |-> exts, out |-> out]
         ELSE LET r == register_extension(exts, name, Extension(name, self))
              IN  IF r.exc # NoExc
                  THEN [exc |-> r.exc, _extensions |-> r._extensions, out |-> out]
                  ELSE LoadExtensionsUnguarded(mods, i + 1, self, r._extensions, out)

\* the body of the for loop of _load_extensions from module i on; out collects
\* the modules reported as "Failed to load extension"
RECURSIVE LoadExtensionsFrom(_, _, _, _, _)
LoadExtensionsFrom(mods, i, self, exts, out) ==
    IF i > Len(mods) THEN [exc |-> NoExc, _extensions |-> exts, out |-> out]
    ELSE LET name == ExtensionModuleNames[i] IN
         IF mods[i].kind = "import_error"
         THEN LoadExtensionsFrom(mods, i + 1, self, exts, Append(out, <<name, "ImportError">>))
         ELSE IF mods[i].kind = "no_hook"
         THEN LoadExtensionsFrom(mods, i + 1, self, exts, out)
         ELSE IF mods[i].kind = "hook_raises"
         THEN LoadExtensionsFrom(mods, i + 1, self, exts, Append(out, <<name, "Exception">>))
         ELSE LET r == register_extension(exts, name, Extension(name, self))
              IN  IF r.exc # NoExc
                  THEN LoadExtensionsFrom(mods, i + 1, self, r._extensions,
                                          Append(out, <<name, r.exc>>))
                  ELSE LoadExtensionsFrom(mods, i + 1, self, r._extensions, out)

\* ClientApi._load_extensions(self) on the _extensions exts
_load_extensions(mods, self, exts) == LoadExtensionsFrom(mods, 1, self, exts, <<>>)

----------------------------------------------------------------------------
(* Capability wrappers: vendor exceptions and the handlers of the wrappers *)

\* the exception classes of the vendor SDKs and the base class of each
BaseOf ==
    [ImageNotFound |-> "NotFound", NotFound |-> "APIError",
     APIError |-> "DockerException", DockerException |-> "Exception",
     ApiException |-> "Exception", ConfigException |-> "Exception",
     JIRAError |-> "Exception", SSHException |-> "Exception"]
VendorExceptions == DOMAIN BaseOf

\* isinstance(e, cls) for an exception of class exc
RECURSIVE IsInstance(_, _)
IsInstance(exc, cls) ==
    \/ exc = cls
    \/ exc \in DOMAIN BaseOf /\ IsInstance(BaseOf[exc], cls)

\* an except clause: the class it catches, the text of the generic error it
\* raises and whether that text includes str(e)
Handler(catches, prefix, with_text) ==
    [catches |-> catches, prefix |-> prefix, with_text |-> with_text]

\* the wrapper operations: the exceptions the vendor calls inside can raise,
\* and the except clauses around them, in order
Wrappers ==
    [DockerApi_init |->
        [raises |-> {"DockerException"}, handlers |-> <<>>],
     DockerApi_create_container |->
        [raises |-> {"ImageNotFound", "APIError"},
         handlers |-> << Handler("ImageNotFound", "Image not found", FALSE),
                         Handler("APIError", "Error creating container", TRUE) >>],
     DockerApi_list_containers |->
        [raises |-> {"APIError"}, handlers |-> <<>>],
     DockerApi_start_container |->
        [raises |-> {"NotFound", "APIError"},
         handlers |-> << Handler("NotFound", "Container not found", FALSE) >>],
     DockerApi_stop_container |->
        [raises |-> {"NotFound", "APIError"},
         handlers |-> << Handler("NotFound", "Container not found", FALSE) >>],
     KubernetesApi_init |->
        [raises |-> {"ConfigException"}, handlers |-> <<>>],
     KubernetesApi_list_contexts |->
        [raises |-> {"ConfigException"},
         handlers |-> << Handler("Exception", "Error listing contexts", TRUE) >>],
     KubernetesApi_scale_deployment |->
        [raises |-> {"ApiException"},
         handlers |-> << Handler("ApiException", "Error scaling deployment", TRUE) >>],
     JiraApi_init |->
        [raises |-> {"JIRAError"},
         handlers |-> << Handler("JIRAError", "Failed to connect to Jira", TRUE) >>],
     JiraApi_update_issue |->
        [raises |-> {"JIRAError"},
         handlers |-> << Handler("JIRAError", "Failed to update issue", TRUE) >>],
     SSHApi_connect |->
        [raises |-> {"SSHException"},
         handlers |-> << Handler("Exception", "Failed to connect", TRUE) >>],
     SSHApi_execute_command |->
        [raises |-> {"SSHException"},
         handlers |-> << Handler("Exception", "Failed to execute command", TRUE) >>]]

\* the text of a vendor exception, str(e)
VendorText(exc) == <<"vendor: ", exc>>

\* an exception as the caller sees it: its class, and the prefix and the
\* vendor text its message holds
Raised(cls, prefix, text) == [cls |-> cls, prefix |-> prefix, text |-> text]

\* the first except clause from clause i on that catches exc raises the generic
\* Exception; with none, exc reaches the caller
RECURSIVE Handle(_, _, _)
Handle(handlers, i, exc) ==
    IF i > Len(handlers) THEN Raised(exc, "", VendorText(exc))
    ELSE IF IsInstance(exc, handlers[i].catches)
         THEN Raised("Exception", handlers[i].prefix,
                     IF handlers[i].with_text THEN VendorText(exc) ELSE <<>>)
         ELSE Handle(handlers, i + 1, exc)

\* wrapper operation op whose vendor call raises exc
Wrapped(op, exc) == Handle(Wrappers[op].handlers, 1, exc)

----------------------------------------------------------------------------
(* Services: wrapper operations with a log entry per invocation *)

\* the objects a service is constructed with as its opensearch argument: an
\* OpenSearchApi, or an object of another class that has a write_log method
OpenSearchApi == [t |-> "OpenSearchApi"]
LogWriter == [t |-> "LogWriter"]
Sinks == {None, OpenSearchApi, LogWriter}

\* hasattr(opensearch, "write_log"): OpenSearchApi defines no such method
HasWriteLog(opensearch) == opensearch = LogWriter

\* the service classes, their default log index and the wrapper method each
\* of their operations calls
ServiceClasses ==
    [JiraService |-> [log_index |-> "jira-logs", service |-> "jira",
                      ops |-> [create_issue |-> "create_issue",
                               transition_issue |-> "update_issue"]],
     KubernetesService |-> [log_index |-> "kubernetes-logs", service |-> "kubernetes",
                            ops |-> [scale_deployment |-> "scale_deployment",
                                     create_deployment |-> "create_deployment"]],
     PostgreSQLService |-> [log_index |-> "postgresql-logs", service |-> "postgresql",
                            ops |-> [kill_blocking_queries |-> "kill_blocking_queries",
                                     monitor_locks |-> "get_locks"]],
     SSHService |-> [log_index |-> "ssh-logs", service |-> "ssh",
                     ops |-> [execute_command |-> "execute_command",
                              copy_file |-> "copy_file_to_remote"]]]

\* the methods the wrapper classes define, among those the services call
WrapperMethods ==
    {"create_issue", "update_issue", "scale_deployment", "create_deployment",
     "execute_command", "copy_file_to_remote"}

\* a service object: cls(..., opensearch=opensearch), with the entries written
\* to its sink so far
Service(cls, opensearch) ==
    [t |-> "Service", cls |-> cls, opensearch |-> opensearch,
     log_index |-> ServiceClasses[cls].log_index, written |-> <<>>]
NoService == [t |-> "None", written |-> <<>>]

\* the document write_log is called with
LogEntry(index_name, action, status, svc, error) ==
    [index_name |-> index_name,
     level |-> IF error # None /\ error # Str("") THEN "ERROR" ELSE "INFO",
     message |-> <<action, " - ", status>>,
     service |-> svc,
     metadata |-> [action |-> action, status |-> status, error |-> error]]

\* BaseService.log_action; write_ok: the write_log call returns
log_action(self, action, status, svc, error, write_ok) ==
    IF self.opensearch = None THEN [exc |-> NoExc, self |-> self]
    ELSE IF ~HasWriteLog(self.opensearch) THEN [exc |-> "AttributeError", self |-> self]
    ELSE IF ~write_ok THEN [exc |-> "SinkError", self |-> self]
    ELSE [exc |-> NoExc,
          self |-> [self EXCEPT !.written =
                       Append(@, LogEntry(self.log_index, action, status, svc, error))]]

\* the except clause of a service operation: log the failure, then raise; an
\* exception of log_action takes the place of e
OnFailure(self, action, e, write_ok) ==
    LET l == log_action(self, action, "failed", ServiceClasses[self.cls].service,
                        Str(e), write_ok)
    IN  [exc |-> IF l.exc # NoExc THEN l.exc ELSE e, ret |-> None, self |-> l.self]

\* the wrapper methods that catch every exception of their vendor calls and
\* return a result whose "success" is False instead of raising
ReportsFailure == {"copy_file_to_remote"}

\* what a wrapper call gives: an exception (AttributeError when the wrapper
\* class has no such method) or a result; ok: the vendor calls return
WrapperCall(method, ok) ==
    IF method \notin WrapperMethods THEN [exc |-> "AttributeError", ret |-> None]
    ELSE IF ~ok /\ method \notin ReportsFailure
         THEN [exc |-> "WrapperError", ret |-> None]
    ELSE [exc |-> NoExc, ret |-> [t |-> "result", of |-> method, success |-> ok]]

\* an operation of JiraService, KubernetesService or PostgreSQLService:
\* try: result = self.client.<method>(...); log success; return result
\* except Exception as e: log failed; raise
LoggedCall(self, action, wrapper_ok, write_ok1, write_ok2) ==
    LET w == WrapperCall(ServiceClasses[self.cls].ops[action], wrapper_ok)
        l == log_action(self, action, "success", ServiceClasses[self.cls].service,
                        None, write_ok1)
    IN  IF w.exc # NoExc THEN OnFailure(self, action, w.exc, write_ok2)
        ELSE IF l.exc # NoExc THEN OnFailure(l.self, action, l.exc, write_ok2)
        ELSE [exc |-> NoExc, ret |-> w.ret, self |-> l.self]

\* the outcome of a service operation together with the calls it made on the
\* SSHApi object, in order
WithEvents(r, events) ==
    [exc |-> r.exc, ret |-> r.ret, self |-> r.self, events |-> events]

\* an operation of SSHService that disconnects after the return value is
\* ready, without a finally clause
SSHLoggedCallNoFinally(self, action, construct_ok, connect_ok, wrapper_ok, disconnect_ok, write_ok1, write_ok2) ==
    LET w == WrapperCall(ServiceClasses[self.cls].ops[action], wrapper_ok)
        l == log_action(self, action, "success", ServiceClasses[self.cls].service,
                        None, write_ok1)
        operated == <<"construct", "connect", "operate">>
    IN  IF ~construct_ok
        THEN WithEvents(OnFailure(self, action, "ConstructError", write_ok2),
                        <<"construct">>)
        ELSE IF ~connect_ok
        THEN WithEvents(OnFailure(self, action, "ConnectError", write_ok2),
                        <<"construct", "connect">>)
        ELSE IF w.exc # NoExc
        THEN WithEvents(OnFailure(self, action, w.exc, write_ok2), operated)
        ELSE IF l.exc # NoExc
        THEN WithEvents(OnFailure(l.self, action, l.exc, write_ok2), operated)
        ELSE IF ~disconnect_ok
        THEN WithEvents(OnFailure(l.self, action, "DisconnectError", write_ok2),
                        Append(operated, "disconnect"))
        ELSE WithEvents([exc |-> NoExc, ret |-> w.ret, self |-> l.self],
                        Append(operated, "disconnect"))

\* an operation of SSHService: construct, connect, then inside try/finally
\* (disconnect) the wrapper call, the success entry and the return
SSHLoggedCall(self, action, construct_ok, connect_ok, wrapper_ok, disconnect_ok, write_ok1, write_ok2) ==
    LET w == WrapperCall(ServiceClasses[self.cls].ops[action], wrapper_ok)
        l == log_action(self, action, "success", ServiceClasses[self.cls].service,
                        None, write_ok1)
        operated == <<"construct", "connect", "operate", "disconnect">>
    IN  IF ~construct_ok
        THEN WithEvents(OnFailure(self, action, "ConstructError", write_ok2),
                        <<"construct">>)
        ELSE IF ~connect_ok
        THEN WithEvents(OnFailure(self, action, "ConnectError", write_ok2),
                        <<"construct", "connect">>)
        ELSE IF w.exc # NoExc
        THEN WithEvents(OnFailure(self, action,
                                  IF disconnect_ok THEN w.exc ELSE "DisconnectError",
                                  write_ok2),
                        operated)
        ELSE IF l.exc # NoExc
        THEN WithEvents(OnFailure(l.self, action,
                                  IF disconnect_ok THEN l.exc ELSE "DisconnectError",
                                  write_ok2),
                        operated)
        ELSE IF ~disconnect_ok
        THEN WithEvents(OnFailure(l.self, action, "DisconnectError", write_ok2),
                        operated)
        ELSE WithEvents([exc |-> NoExc, ret |-> w.ret, self |-> l.self], operated)

----------------------------------------------------------------------------
(* SSHApi.execute_commands *)

\* what execute_command gives for a command whose exit status is exit_status
CommandResult(exit_status) ==
    [exit_code |-> exit_status, success |-> exit_status = 0]

\* the loop of execute_commands from command i on, results collected so far;
\* exits[i]: the exit status of command i; fail_at: the command whose
\* execute_command raises (0: none)
RECURSIVE ExecuteFrom(_, _, _, _, _)
ExecuteFrom(commands, i, exits, fail_at, results) ==
    IF i > Len(commands) THEN [exc |-> NoExc, ret |-> results]
    ELSE IF i = fail_at THEN [exc |-> "Exception", ret |-> None]
    ELSE LET result == CommandResult(exits[i])
             entry == [command |-> commands[i], exit_code |-> result.exit_code,
                       success |-> result.success]
         IN  IF ~result.success
             THEN [exc |-> NoExc, ret |-> Append(results, entry)]
             ELSE ExecuteFrom(commands, i + 1, exits, fail_at, Append(results, entry))

\* execute_commands that goes on after a command failed
RECURSIVE ExecuteAllFrom(_, _, _, _, _)
ExecuteAllFrom(commands, i, exits, fail_at, results) ==
    IF i > Len(commands) THEN [exc |-> NoExc, ret |-> results]
    ELSE IF i = fail_at THEN [exc |-> "Exception", ret |-> None]
    ELSE ExecuteAllFrom(commands, i + 1, exits, fail_at,
             Append(results, [command |-> commands[i], exit_code |-> exits[i],
                              success |-> exits[i] = 0]))

execute_commands_all(commands, exits, fail_at) ==
    ExecuteAllFrom(commands, 1, exits, fail_at, <<>>)

\* SSHApi.execute_commands(commands)
execute_commands(commands, exits, fail_at) ==
    ExecuteFrom(commands, 1, exits, fail_at, <<>>)

----------------------------------------------------------------------------
(* EnvironmentTypeManager *)

\* env_type in self.environment_types
Contains(list, x) == \E k \in DOMAIN list : list[k] = x

\* list.remove(x): the first element equal to x is taken out
ListRemove(list, x) ==
    LET k == CHOOSE j \in DOMAIN list :
                 list[j] = x /\ \A h \in 1..(j - 1) : list[h] # x
    IN  SubSeq(list, 1, k - 1) \o SubSeq(list, k + 1, Len(list))

\* add_environment_type that puts a new type in front
add_environment_type_front(types, env_type) ==
    IF ~Contains(types, env_type) THEN <<env_type>> \o types ELSE types

\* EnvironmentTypeManager.add_environment_type(env_type)
add_environment_type(types, env_type) ==
    IF ~Contains(types, env_type) THEN Append(types, env_type) ELSE types

\* EnvironmentTypeManager.remove_environment_type(env_type)
remove_environment_type(types, env_type) ==
    IF Contains(types, env_type) THEN ListRemove(types, env_type) ELSE types

----------------------------------------------------------------------------
(* PostgreSQLApi: transactions *)

\* the rows of the one table the model follows, by their key
Rows == {"r1", "r2", "r3"}

\* the database behind self.conn: the committed rows, the rows as the open
\* transaction of the connection sees them, and whether a transaction is open
\* (psycopg2 with autocommit = False opens one at the first statement)
Connection(table, work, in_txn) ==
    [t |-> "connection", table |-> table, work |-> work, in_txn |-> in_txn]

\* self.commit()
commit(c) == Connection(c.work, c.work, FALSE)

\* self.rollback()
rollback(c) == Connection(c.table, c.table, FALSE)

\* statements: what cur.execute(...) of each does to the rows the transaction
\* sees (an UPDATE keeps the keys), and whether the statement gives rows to
\* fetch
Insert(row, returning) == [verb |-> "insert", row |-> row, rows |-> returning]
Update(row, returning) == [verb |-> "update", row |-> row, rows |-> returning]
Delete(row, returning) == [verb |-> "delete", row |-> row, rows |-> returning]
Select == [verb |-> "select", row |-> "none", rows |-> TRUE]

\* cur.execute(statement) that returns: the connection afterwards
Executed(c, statement) ==
    Connection(c.table,
               CASE statement.verb = "insert" -> c.work \cup {statement.row}
                 [] statement.verb = "delete" -> c.work \ {statement.row}
                 [] OTHER -> c.work,
               TRUE)

\* cur.execute(statement) that raises: the transaction is open and aborted
Aborted(c) == Connection(c.table, c.work, TRUE)

\* the loop of create from record i on; fail_at: the record whose INSERT
\* raises (0: none)
RECURSIVE InsertFrom(_, _, _, _)
InsertFrom(c, data, i, fail_at) ==
    IF i > Len(data) THEN [exc |-> NoExc, conn |-> c]
    ELSE IF i = fail_at THEN [exc |-> "DatabaseError", conn |-> Aborted(c)]
    ELSE InsertFrom(Executed(c, Insert(data[i], FALSE)), data, i + 1, fail_at)

\* PostgreSQLApi.create(table_name, data): data[0] of an empty list raises
\* IndexError inside the try
create(c, data, fail_at) ==
    LET r == InsertFrom(c, data, 1, fail_at)
    IN  IF data = <<>> THEN [exc |-> "Exception", conn |-> rollback(c)]
        ELSE IF r.exc # NoExc THEN [exc |-> "Exception", conn |-> rollback(r.conn)]
        ELSE [exc |-> NoExc, conn |-> commit(r.conn)]

\* PostgreSQLApi.update and PostgreSQLApi.delete: one statement, then commit
\* (fetchall first when returning is given)
change(c, statement, ok) ==
    IF ~ok THEN [exc |-> "Exception", conn |-> rollback(Aborted(c))]
    ELSE [exc |-> NoExc, conn |-> commit(Executed(c, statement))]

\* PostgreSQLApi.execute(query, params, fetch): with fetch the rows are
\* returned (fetchall raises ProgrammingError when the statement gave none),
\* without fetch the transaction is committed
execute(c, statement, fetch, ok) ==
    IF ~ok THEN [exc |-> "Exception", conn |-> rollback(Aborted(c))]
    ELSE IF fetch
         THEN IF statement.rows THEN [exc |-> NoExc, conn |-> Executed(c, statement)]
              ELSE [exc |-> "Exception", conn |-> rollback(Executed(c, statement))]
    ELSE [exc |-> NoExc, conn |-> commit(Executed(c, statement))]

\* PostgreSQLApi.execute_many(query, params): cur.executemany, then commit
execute_many(c, data, fail_at) ==
    LET r == InsertFrom(c, data, 1, fail_at)
    IN  IF r.exc # NoExc THEN [exc |-> "Exception", conn |-> rollback(r.conn)]
        ELSE [exc |-> NoExc, conn |-> commit(r.conn)]

----------------------------------------------------------------------------
(* The state of the process and the calls made on it *)

\* the record of a call: what was called, on which facade, with what argument,
\* the exception raised, the value returned, the failures printed, and whether
\* a capability constructor was invoked
Call(op, self, arg, exc, ret, out, ctor) ==
    [op |-> op, self |-> self, arg |-> arg, exc |-> exc, ret |-> ret, out |-> out,
     ctor |-> ctor]

\* the registry-side state
Here == Process(_app, _instance, made, Registry(_plugins, groups))

SetProcess(st) ==
    /\ _app' = st._app
    /\ _instance' = st._instance
    /\ made' = st.made
    /\ _plugins' = st.reg._plugins
    /\ groups' = st.reg.groups

NotRead == [t |-> "unread"]

\* no PostgreSQLApi has been constructed
NoConnection == [t |-> "None"]

InitProcess ==
    /\ _app = None
    /\ _instance = None
    /\ _plugins = EmptyDict
    /\ groups = [a \in Apps |-> <<>>]
    /\ made = 0
    /\ clients = <<>>
    /\ last = Call("start", 0, None, NoExc, None, <<>>, FALSE)
    /\ _client = None
    /\ _plugins_loaded = FALSE
    /\ pc = "import"
    /\ sshs = <<>>
    /\ conn = NoConnection
    /\ environment_types = <<>>

\* the modules of the repository's own plugins and extensions directories:
\* example_plugin and resource_manager_plugin; cloud_resources, whose import of
\* apis.client_api.Client fails
RepoPlugins == <<HookReturns(ExamplePlugin), HookReturns(ResourceManagerPlugin)>>
RepoExtensions == <<ImportError>>

SeqsUpTo(S, n) == UNION {[1..k -> S] : k \in 0..n}

\* PluginRegistry.initialize(app)
Initialize(app) ==
    /\ _app' = app
    /\ last' = Call("initialize", 0, app, NoExc, None, <<>>, FALSE)
    /\ UNCHANGED <<_instance, _plugins, groups, made, plugin_modules, ext_modules,
                   clients, typeName, derived>>
    /\ UNCHANGED <<startup_vars, outside_vars>>
    /\ UNCHANGED data_vars

\* PluginRegistry.get_instance()
GetInstance ==
    LET g == get_instance(_app, _instance, made)
    IN  /\ SetProcess(Process(_app, g._instance, g.made, RegistryOf(g, Here)))
        /\ last' = Call("get_instance", 0, None, g.exc, g.ret, <<>>, FALSE)
        /\ UNCHANGED <<plugin_modules, ext_modules, clients, typeName, derived>>
    /\ UNCHANGED <<startup_vars, outside_vars>>
    /\ UNCHANGED data_vars

\* PluginRegistry.get_instance().register_plugin(plugin) for a plugin a caller
\* made itself
RegisterPlugin(typ) ==
    /\ _instance # None
    /\ LET plugin == Plugin(typ, 0, 0, FreshId(Live(_plugins)))
           r == register_plugin(Registry(_plugins, groups), _app, plugin)
       IN  /\ SetProcess(Process(_app, _instance, made, r.reg))
           /\ last' = Call("register_plugin", 0, plugin, r.exc, None, <<>>, FALSE)
    /\ UNCHANGED <<plugin_modules, ext_modules, clients, typeName, derived>>
    /\ UNCHANGED <<startup_vars, outside_vars>>
    /\ UNCHANGED data_vars

\* ClientApi(config), the facade number self, in process state st: the facade
\* __init__ leaves, the process state, the exception and the failures printed
ClientApi(config, self, mods, exts, st) ==
    LET lp == _load_plugins(mods, self, st)
        le == _load_extensions(exts, self, EmptyDict)
    IN  [exc |-> IF lp.exc # NoExc THEN lp.exc ELSE le.exc,
         st |-> lp.st,
         facade |-> [config |-> config, _apis |-> EmptyDict,
                     _extensions |-> le._extensions,
                     built |-> [c \in Caps |-> 0], first |-> [c \in Caps |-> None],
                     stale |-> {}],
         out |-> <<lp.out, le.out>>]

\* the keyword arguments get_client passes to ClientConfig
EnvConfig(env) ==
    [github_token |-> getenv(env, "GITHUB_TOKEN"),
     jira_url |-> getenv(env, "JIRA_URL"),
     jira_username |-> getenv(env, "JIRA_USERNAME"),
     jira_token |-> getenv(env, "JIRA_TOKEN"),
     confluence_url |-> getenv(env, "CONFLUENCE_URL"),
     confluence_username |-> getenv(env, "CONFLUENCE_USERNAME"),
     confluence_token |-> getenv(env, "CONFLUENCE_TOKEN"),
     kube_config_path |-> getenv(env, "KUBE_CONFIG_PATH"),
     kube_context |-> getenv(env, "KUBE_CONTEXT")]

\* a reference to the facade number self
Facade(self) == [t |-> "ClientApi", id |-> self]

\* the module globals of apis.core.client
Globals(client, loaded) == [_client |-> client, _plugins_loaded |-> loaded]

\* get_client() that constructs a facade on every call
get_client_fresh(g, cls, st, mods, exts, env) ==
    LET self == Len(cls) + 1
    IN  CHOOSE result \in
            {LET lp == _load_plugins(mods, self, c.st)
             IN  [g |-> Globals(Facade(self), TRUE),
                  clients |-> Append(cls, c.facade),
                  st |-> IF g._plugins_loaded THEN c.st ELSE lp.st,
                  ret |-> self,
                  out |-> IF g._plugins_loaded THEN c.out[1]
                          ELSE c.out[1] \o lp.out] :
             c \in {ClientApi(ClientConfig(EnvConfig(env)), self,
                              mods, exts, st)}} : TRUE

\* get_client() with the module globals g, the facades cls constructed so far,
\* the process state st and os.environ = env: the globals, facades and process
\* state it leaves and the facade it returns
get_client(g, cls, st, mods, exts, env) ==
    IF g._client = None
    THEN LET self == Len(cls) + 1
         IN  CHOOSE result \in
                 {LET lp == _load_plugins(mods, self, c.st)
                  IN  [g |-> Globals(Facade(self), TRUE),
                       clients |-> Append(cls, c.facade),
                       st |-> IF g._plugins_loaded THEN c.st ELSE lp.st,
                       ret |-> self,
                       out |-> IF g._plugins_loaded THEN c.out[1]
                               ELSE c.out[1] \o lp.out] :
                  c \in {ClientApi(ClientConfig(EnvConfig(env)), self,
                                   mods, exts, st)}} : TRUE
    ELSE [g |-> g, clients |-> cls, st |-> st, ret |-> g._client.id, out |-> <<>>]

\* ClientApi(config)
ClientApiInit(config) ==
    /\ Len(clients) < MaxClients
    /\ LET self == Len(clients) + 1
           c == ClientApi(config, self, plugin_modules, ext_modules, Here)
       IN  /\ SetProcess(c.st)
           /\ clients' = Append(clients, c.facade)
           /\ last' = Call("ClientApi", self, config, c.exc,
                           Facade(self), c.out, FALSE)
    /\ UNCHANGED <<plugin_modules, ext_modules, typeName, derived>>
    /\ UNCHANGED <<startup_vars, outside_vars>>
    /\ UNCHANGED data_vars

\* client._load_plugins(), as get_client calls it on the facade it made
LoadPlugins(self) ==
    /\ LET lp == _load_plugins(plugin_modules, self, Here)
       IN  /\ SetProcess(lp.st)
           /\ last' = Call("_load_plugins", self, lp.skipped, lp.exc, None, lp.out, FALSE)
    /\ UNCHANGED <<plugin_modules, ext_modules, clients, typeName, derived>>
    /\ UNCHANGED <<startup_vars, outside_vars>>
    /\ UNCHANGED data_vars

\* client.<cap> for a cached capability
AccessCap(self, cap, ctor_ok) ==
    /\ LET r == Access(clients[self], cap, ctor_ok)
       IN  /\ clients' = [clients EXCEPT ![self]._apis = r._apis,
                                         ![self].built = r.built,
                                         ![self].first[cap] =
                                             IF @ = None /\ r.exc = NoExc THEN r.ret ELSE @]
           /\ last' = Call("access", self, cap, r.exc, r.ret, <<>>, r.ctor)
    /\ UNCHANGED <<_app, _instance, _plugins, groups, made, plugin_modules,
                   ext_modules, typeName, derived>>
    /\ UNCHANGED <<startup_vars, outside_vars>>
    /\ UNCHANGED data_vars

\* client.register_extension(name, extension)
RegisterExtension(self, name, extension) ==
    /\ LET r == register_extension(clients[self]._extensions, name, extension)
       IN  /\ clients' = [clients EXCEPT ![self]._extensions = r._extensions]
           /\ last' = Call("register_extension", self, <<name, extension>>, r.exc, None,
                           <<>>, FALSE)
    /\ UNCHANGED <<_app, _instance, _plugins, groups, made, plugin_modules,
                   ext_modules, typeName, derived>>
    /\ UNCHANGED <<startup_vars, outside_vars>>
    /\ UNCHANGED data_vars

\* client.get_extension(name)
GetExtension(self, name) ==
    /\ LET r == get_extension(clients[self]._extensions, name)
       IN  last' = Call("get_extension", self, name, r.exc, r.ret, <<>>, FALSE)
    /\ UNCHANGED <<_app, _instance, _plugins, groups, made, plugin_modules,
                   ext_modules, clients, typeName, derived>>
    /\ UNCHANGED <<startup_vars, outside_vars>>
    /\ UNCHANGED data_vars

\* plugin.name of a plugin whose class is named typeName
ReadName ==
    /\ derived = NotRead
    /\ derived' = Str(PluginName(typeName))
    /\ UNCHANGED <<_app, _instance, _plugins, groups, made, plugin_modules,
                   ext_modules, clients, typeName, last>>
    /\ UNCHANGED <<startup_vars, outside_vars>>
    /\ UNCHANGED data_vars

\* client.load_config(filename) for a file of content file
LoadConfig(self, file) ==
    /\ LET r == load_config(clients[self], file)
       IN  /\ clients' = [clients EXCEPT ![self] =
                             [r.self EXCEPT !.stale =
                                 IF r.self.config # clients[self].config
                                 THEN @ \cup DOMAIN clients[self]._apis ELSE @]]
           /\ last' = Call("load_config", self, file, r.exc, None, <<>>, FALSE)
    /\ UNCHANGED <<_app, _instance, _plugins, groups, made, plugin_modules,
                   ext_modules, typeName, derived>>
    /\ UNCHANGED <<startup_vars, outside_vars>>
    /\ UNCHANGED data_vars

\* client.config = config
AssignConfig(self, config) ==
    /\ clients' = [clients EXCEPT ![self].config = config,
                                  ![self].stale =
                                      IF config # clients[self].config
                                      THEN @ \cup DOMAIN clients[self]._apis ELSE @]
    /\ last' = Call("assign_config", self, config, NoExc, None, <<>>, FALSE)
    /\ UNCHANGED <<_app, _instance, _plugins, groups, made, plugin_modules,
                   ext_modules, typeName, derived>>
    /\ UNCHANGED <<startup_vars, outside_vars>>
    /\ UNCHANGED data_vars

\* client.export_config()
ExportConfig(self) ==
    /\ environ' = export_config(clients[self].config, environ)
    /\ last' = Call("export_config", self, None, NoExc, None, <<>>, FALSE)
    /\ UNCHANGED <<_app, _instance, _plugins, groups, made, plugin_modules,
                   ext_modules, clients, typeName, derived>>
    /\ UNCHANGED <<startup_vars, sshs, service>>
    /\ UNCHANGED data_vars

\* client.ssh(hostname, **kwargs)
Ssh(self, hostname, kwargs) ==
    /\ Len(sshs) < MaxSsh
    /\ LET r == ssh(clients[self], sshs, hostname, kwargs)
       IN  /\ clients' = [clients EXCEPT ![self]._apis = r._apis]
           /\ sshs' = r.sshs
           /\ last' = Call("ssh", self, [hostname |-> hostname, kwargs |-> kwargs],
                           r.exc, r.ret, <<>>, r.exc = NoExc)
    /\ UNCHANGED <<_app, _instance, _plugins, groups, made, plugin_modules,
                   ext_modules, typeName, derived>>
    /\ UNCHANGED <<startup_vars, environ, service>>
    /\ UNCHANGED data_vars

\* cli.py, lines 18-21: if the configuration file exists, get the client, load
\* the file into it and export it to the environment; an exception ends the
\* process
StartupConfig ==
    /\ pc = "import"
    /\ IF config_file = NoFile
       THEN /\ pc' = "init"
            /\ last' = Call("startup_config", 0, config_file, NoExc, None, <<>>, FALSE)
            /\ UNCHANGED <<_app, _instance, _plugins, groups, made, clients, environ,
                           _client, _plugins_loaded>>
       ELSE \E g \in {get_client(Globals(_client, _plugins_loaded), clients, Here,
                                  plugin_modules, ext_modules, environ)} :
            \E r \in {load_config(g.clients[g.ret], config_file)} :
                /\ SetProcess(g.st)
                /\ _client' = g.g._client
                /\ _plugins_loaded' = g.g._plugins_loaded
                /\ clients' = [g.clients EXCEPT ![g.ret] = r.self]
                /\ environ' = IF r.exc = NoExc
                              THEN export_config(r.self.config, environ) ELSE environ
                /\ pc' = IF r.exc = NoExc THEN "init" ELSE "crashed"
                /\ last' = Call("startup_config", g.ret, config_file, r.exc, None,
                                g.out, FALSE)
    /\ UNCHANGED <<plugin_modules, ext_modules, typeName, derived, config_file,
                   sshs, service>>
    /\ UNCHANGED data_vars

\* cli.py, line 33: PluginRegistry.initialize(plugins_app)
StartupInitialize ==
    /\ pc = "init"
    /\ pc' = "main"
    /\ _app' = App("plugins")
    /\ last' = Call("initialize", 0, App("plugins"), NoExc, None, <<>>, FALSE)
    /\ UNCHANGED <<_instance, _plugins, groups, made, plugin_modules, ext_modules,
                   clients, typeName, derived, environ, config_file, _client,
                   _plugins_loaded, sshs, service>>
    /\ UNCHANGED data_vars

\* cli.py, main(): get_client(), then the command dispatcher app()
Main ==
    /\ pc = "main"
    /\ \E g \in {get_client(Globals(_client, _plugins_loaded), clients, Here,
                              plugin_modules, ext_modules, environ)} :
           /\ SetProcess(g.st)
           /\ _client' = g.g._client
           /\ _plugins_loaded' = g.g._plugins_loaded
           /\ clients' = g.clients
           /\ last' = Call("main", g.ret, None, NoExc, None, g.out, FALSE)
    /\ pc' = "dispatch"
    /\ UNCHANGED <<plugin_modules, ext_modules, typeName, derived, environ,
                   config_file, sshs, service>>
    /\ UNCHANGED data_vars

\* a command of the dispatcher: the function typer calls for it
Command(callback) == [callback |-> callback]

\* the commands of the modules of commands/ that cli.py mounts under "core"
CoreCommands ==
    {Command(c) : c \in {"github.branches", "github.issues", "github.list_open_prs",
                         "github.create_pr", "github.get_file_contents",
                         "jira.jql", "confluence.create", "confluence.export_pdf",
                         "client.list_plugins", "client.list_extensions",
                         "logging.start", "logging.stop", "logging.send",
                         "deps.list", "deps.install"}}

\* the commands typer finds on the sub-applications mounted under "plugins"
MountedCommands(grps) ==
    {Command(c.callback) :
        c \in UNION {{grps[k].commands[i] : i \in DOMAIN grps[k].commands} :
                        k \in DOMAIN grps}}

\* what the body of a command does with the facade and the registry: whether
\* it calls get_client(), whether it calls PluginRegistry.get_instance(),
\* whether it gives up unless the cloud_resources extension is loaded, and the
\* capabilities it then reads, in order
Body(client, registry, extension, reads) ==
    [get_client |-> client, registry |-> registry, extension |-> extension,
     reads |-> reads]

\* a github command of commands/github.py read from capability docker instead
CommandBodyDocker(callback) ==
    CASE callback \in {"github.branches", "github.issues", "github.list_open_prs",
                       "github.create_pr", "github.get_file_contents"} ->
             Body(TRUE, FALSE, FALSE, <<"docker">>)
      [] callback = "jira.jql" -> Body(TRUE, FALSE, FALSE, <<"jira">>)
      [] callback \in {"confluence.create", "confluence.export_pdf"} ->
             Body(TRUE, FALSE, FALSE, <<"confluence">>)
      [] callback = "client.list_plugins" -> Body(FALSE, TRUE, FALSE, <<>>)
      [] callback = "client.list_extensions" -> Body(TRUE, FALSE, FALSE, <<>>)
      [] callback = "create_issue_command" ->
             Body(FALSE, FALSE, FALSE, <<"github", "jira">>)
      [] callback = "list_resources" ->
             Body(FALSE, FALSE, TRUE, <<"kubernetes", "github">>)
      [] callback = "list_github" -> Body(FALSE, FALSE, TRUE, <<"github">>)
      [] callback = "list_kubernetes" -> Body(FALSE, FALSE, TRUE, <<"kubernetes">>)
      [] callback = "list_pull_requests" -> Body(FALSE, FALSE, FALSE, <<"github">>)
      [] OTHER -> Body(FALSE, FALSE, FALSE, <<>>)

\* the body of the command function callback (commands/*.py, plugins/*.py)
CommandBody(callback) ==
    CASE callback \in {"github.branches", "github.issues", "github.list_open_prs",
                       "github.create_pr", "github.get_file_contents"} ->
             Body(TRUE, FALSE, FALSE, <<"github">>)
      [] callback = "jira.jql" -> Body(TRUE, FALSE, FALSE, <<"jira">>)
      [] callback \in {"confluence.create", "confluence.export_pdf"} ->
             Body(TRUE, FALSE, FALSE, <<"confluence">>)
      [] callback = "client.list_plugins" -> Body(FALSE, TRUE, FALSE, <<>>)
      [] callback = "client.list_extensions" -> Body(TRUE, FALSE, FALSE, <<>>)
      [] callback = "create_issue_command" ->
             Body(FALSE, FALSE, FALSE, <<"github", "jira">>)
      [] callback = "list_resources" ->
             Body(FALSE, FALSE, TRUE, <<"kubernetes", "github">>)
      [] callback = "list_github" -> Body(FALSE, FALSE, TRUE, <<"github">>)
      [] callback = "list_kubernetes" -> Body(FALSE, FALSE, TRUE, <<"kubernetes">>)
      [] callback = "list_pull_requests" -> Body(FALSE, FALSE, FALSE, <<"github">>)
      [] OTHER -> Body(FALSE, FALSE, FALSE, <<>>)

\* the reads caps[i], caps[i+1], ... of a command body on facade self, up to
\* the first that raises: every body catches Exception around its reads
RECURSIVE ReadCaps(_, _, _, _)
ReadCaps(self, caps, i, ctor_ok) ==
    IF i > Len(caps) THEN [exc |-> NoExc, self |-> self]
    ELSE LET r == Access(self, caps[i], ctor_ok)
             after == [self EXCEPT !._apis = r._apis, !.built = r.built,
                                   !.first[caps[i]] =
                                       IF @ = None /\ r.exc = NoExc THEN r.ret ELSE @]
         IN  IF r.exc # NoExc THEN [exc |-> r.exc, self |-> after]
             ELSE ReadCaps(after, caps, i + 1, ctor_ok)

\* cli.py, main(): app() calls the function of the command the arguments name
\* and the process exits. A plugin's client is the facade that loaded it, the
\* one get_client returns.
Dispatch(command, ctor_ok) ==
    /\ pc = "dispatch"
    /\ command \in CoreCommands \cup MountedCommands(groups[App("plugins")])
    /\ \E body \in {CommandBody(command.callback)} :
       \E g \in {IF body.get_client
                 THEN get_client(Globals(_client, _plugins_loaded), clients, Here,
                                 plugin_modules, ext_modules, environ)
                 ELSE [g |-> Globals(_client, _plugins_loaded), clients |-> clients,
                       st |-> Here, ret |-> _client.id, out |-> <<>>]} :
       \E i \in {IF body.registry
                 THEN get_instance(g.st._app, g.st._instance, g.st.made)
                 ELSE [exc |-> NoExc, ret |-> None, _instance |-> g.st._instance,
                       made |-> g.st.made]} :
       \E r \in {IF body.extension
                    /\ get_extension(g.clients[g.ret]._extensions,
                                     "cloud_resources").ret = None
                 THEN [exc |-> "Exit", self |-> g.clients[g.ret]]
                 ELSE ReadCaps(g.clients[g.ret], body.reads, 1, ctor_ok)} :
           /\ SetProcess(Process(g.st._app, i._instance, i.made, RegistryOf(i, g.st)))
           /\ _client' = g.g._client
           /\ _plugins_loaded' = g.g._plugins_loaded
           /\ clients' = [g.clients EXCEPT ![g.ret] = r.self]
           /\ last' = Call("dispatch", g.ret, command, r.exc, None, g.out, FALSE)
    /\ pc' = "exit"
    /\ UNCHANGED <<plugin_modules, ext_modules, typeName, derived, environ,
                   config_file, sshs, service>>
    /\ UNCHANGED data_vars

\* service.<action>(...): the outcomes of the vendor calls and of the sink are
\* the inputs
ServiceCall(action, construct_ok, connect_ok, wrapper_ok, disconnect_ok, write_ok1, write_ok2) ==
    /\ service # NoService
    /\ Len(service.written) < MaxLog
    /\ action \in DOMAIN ServiceClasses[service.cls].ops
    /\ service.cls # "SSHService" => (construct_ok /\ connect_ok /\ disconnect_ok)
    /\ \E w \in {WrapperCall(ServiceClasses[service.cls].ops[action], wrapper_ok)} :
       \E r \in {IF service.cls = "SSHService"
                 THEN SSHLoggedCall(service, action, construct_ok, connect_ok,
                                    wrapper_ok, disconnect_ok, write_ok1, write_ok2)
                 ELSE WithEvents(LoggedCall(service, action, wrapper_ok, write_ok1,
                                            write_ok2), <<>>)} :
           /\ service' = r.self
           /\ last' = Call("service", 0,
                           [action |-> action,
                            returned |-> /\ construct_ok /\ connect_ok /\ disconnect_ok
                                         /\ w.exc = NoExc,
                            raised |-> IF ~construct_ok THEN "ConstructError"
                                       ELSE IF ~connect_ok THEN "ConnectError"
                                       ELSE IF ~disconnect_ok THEN "DisconnectError"
                                       ELSE w.exc,
                            result |-> w.ret,
                            vendor_ok |-> wrapper_ok,
                            events |-> r.events],
                           r.exc, r.ret,
                           SubSeq(r.self.written, Len(service.written) + 1,
                                  Len(r.self.written)),
                           FALSE)
    /\ UNCHANGED <<_app, _instance, _plugins, groups, made, plugin_modules,
                   ext_modules, clients, typeName, derived>>
    /\ UNCHANGED <<startup_vars, environ, sshs>>
    /\ UNCHANGED data_vars

\* the frame of the operations of PostgreSQLApi
PostgresFrame ==
    UNCHANGED <<_app, _instance, _plugins, groups, made, plugin_modules, ext_modules,
                clients, typeName, derived, startup_vars, outside_vars,
                environment_types>>

\* PostgreSQLApi(host, database, user, password) against a database that
\* holds the rows table
Connect(table) ==
    /\ conn = NoConnection
    /\ conn' = Connection(table, table, FALSE)
    /\ last' = Call("connect", 0, None, NoExc, None, <<>>, FALSE)
    /\ PostgresFrame

\* an operation of PostgreSQLApi with outcome r
Postgres(method, arg, r) ==
    /\ conn # NoConnection
    /\ conn' = r.conn
    /\ last' = Call("postgres", 0, [method |-> method, arg |-> arg, before |-> conn],
                    r.exc, None, <<>>, FALSE)
    /\ PostgresFrame

PgCreate(data, fail_at) ==
    /\ fail_at \in 0..Len(data)
    /\ Postgres("create", data, create(conn, data, fail_at))

PgChange(statement, ok) ==
    /\ statement.verb \in {"update", "delete"}
    /\ Postgres(statement.verb, statement, change(conn, statement, ok))

PgExecute(statement, fetch, ok) ==
    Postgres("execute", [statement |-> statement, fetch |-> fetch],
             execute(conn, statement, fetch, ok))

PgExecuteMany(data, fail_at) ==
    /\ fail_at \in 0..Len(data)
    /\ Postgres("execute_many", data, execute_many(conn, data, fail_at))

\* ssh.execute_commands(commands) on a connected SSHApi
ExecuteCommands(commands, exits, fail_at) ==
    /\ Len(exits) = Len(commands)
    /\ fail_at \in 0..Len(commands)
    /\ LET r == execute_commands(commands, exits, fail_at)
       IN  last' = Call("execute_commands", 0,
                        [commands |-> commands, exits |-> exits, fail_at |-> fail_at],
                        r.exc, r.ret, <<>>, FALSE)
    /\ UNCHANGED <<_app, _instance, _plugins, groups, made, plugin_modules,
                   ext_modules, clients, typeName, derived>>
    /\ UNCHANGED <<startup_vars, outside_vars, data_vars>>

\* the frame of the operations of EnvironmentTypeManager
EnvironmentFrame ==
    UNCHANGED <<_app, _instance, _plugins, groups, made, plugin_modules, ext_modules,
                clients, typeName, derived, startup_vars, outside_vars, conn>>

\* manager.add_environment_type(env_type)
AddEnvironmentType(env_type) ==
    /\ environment_types' = add_environment_type(environment_types, env_type)
    /\ last' = Call("add_environment_type", 0, env_type, NoExc, None, <<>>, FALSE)
    /\ EnvironmentFrame

\* manager.remove_environment_type(env_type)
RemoveEnvironmentType(env_type) ==
    /\ environment_types' = remove_environment_type(environment_types, env_type)
    /\ last' = Call("remove_environment_type", 0, env_type, NoExc, None, <<>>, FALSE)
    /\ EnvironmentFrame

\* a wrapper operation whose vendor call raises exc
WrapperOp(op, exc) ==
    /\ exc \in Wrappers[op].raises
    /\ LET r == Wrapped(op, exc)
       IN  last' = Call("wrapper", 0, [op |-> op, vendor |-> exc], r.cls,
                        [t |-> "message", prefix |-> r.prefix, text |-> r.text],
                        <<>>, FALSE)
    /\ UNCHANGED <<_app, _instance, _plugins, groups, made, plugin_modules,
                   ext_modules, clients, typeName, derived>>
    /\ UNCHANGED <<startup_vars, outside_vars>>
    /\ UNCHANGED data_vars

\* plugin.register_command(name, callback) on a plugin of the registry
RegisterCommand(pname, name, callback) ==
    /\ pname \in DOMAIN _plugins
    /\ Len(_plugins[pname].commands) < MaxCommands
    /\ LET reg == register_command(Registry(_plugins, groups), pname, name, callback,
                                   "", {})
       IN  /\ SetProcess(Process(_app, _instance, made, reg))
           /\ last' = Call("register_command", 0,
                           [plugin |-> pname, name |-> name, callback |-> callback],
                           NoExc, None, <<>>, FALSE)
    /\ UNCHANGED <<plugin_modules, ext_modules, clients, typeName, derived>>
    /\ UNCHANGED <<startup_vars, outside_vars>>
    /\ UNCHANGED data_vars

----------------------------------------------------------------------------
(* Specifications *)

\* The registry singleton: initialisation with either application, access,
\* registration by hand and by discovery of the repository's plugins
InitRegistry ==
    /\ InitProcess
    /\ service = NoService
    /\ environ = EmptyDict
    /\ config_file = NoFile
    /\ plugin_modules = RepoPlugins
    /\ ext_modules = RepoExtensions
    /\ typeName = ExamplePlugin
    /\ derived = NotRead

NextRegistry ==
    \/ \E app \in Apps : Initialize(app)
    \/ GetInstance
    \/ \E typ \in PluginTypes : RegisterPlugin(typ)
    \/ ClientApiInit(ClientConfig(EmptyDict))
    \/ \E self \in DOMAIN clients : LoadPlugins(self)

SpecRegistry == InitRegistry /\ [][NextRegistry]_vars

\* Plugin discovery, over every plugins directory of MaxModules modules (a
\* shorter directory behaves as one filled up with modules without a hook)
InitDiscovery ==
    /\ InitProcess
    /\ service = NoService
    /\ environ = EmptyDict
    /\ config_file = NoFile
    /\ plugin_modules \in [1..MaxModules -> PluginModules]
    /\ ext_modules = RepoExtensions
    /\ typeName = ExamplePlugin
    /\ derived = NotRead

NextDiscovery ==
    \/ Initialize(App("plugins"))
    \/ GetInstance
    \/ ClientApiInit(ClientConfig(EmptyDict))
    \/ \E self \in DOMAIN clients : LoadPlugins(self)

SpecDiscovery == InitDiscovery /\ [][NextDiscovery]_vars

\* The cached capabilities of the facade, over the configurations of Configs
InitCapabilities ==
    /\ InitProcess
    /\ service = NoService
    /\ environ = EmptyDict
    /\ config_file = NoFile
    /\ plugin_modules = RepoPlugins
    /\ ext_modules = RepoExtensions
    /\ typeName = ExamplePlugin
    /\ derived = NotRead

NextCapabilities ==
    \/ \E config \in Configs : ClientApiInit(config)
    \/ \E self \in DOMAIN clients, cap \in Caps, ctor_ok \in BOOLEAN :
           AccessCap(self, cap, ctor_ok)

SpecCapabilities == InitCapabilities /\ [][NextCapabilities]_vars

\* The extensions of the facade, over every extensions directory of
\* MaxExtModules modules
InitExtensions ==
    /\ InitProcess
    /\ service = NoService
    /\ environ = EmptyDict
    /\ config_file = NoFile
    /\ plugin_modules = RepoPlugins
    /\ ext_modules \in [1..MaxExtModules -> ExtensionModules]
    /\ typeName = ExamplePlugin
    /\ derived = NotRead

NextExtensions ==
    \/ ClientApiInit(ClientConfig(EmptyDict))
    \/ \E self \in DOMAIN clients, name \in ExtNames, extension \in ExtObjects :
           RegisterExtension(self, name, extension)
    \/ \E self \in DOMAIN clients, name \in LookupNames : GetExtension(self, name)

SpecExtensions == InitExtensions /\ [][NextExtensions]_vars

\* the parts type names are put together from
NameParts ==
    { s_Plugin, s_plugin, <<"P", "L", "U", "G", "I", "N">>, s_Example, s_Resource,
      s_Manager, <<"_">>, <<"s">>, <<"p", "l", "u", "g">>, <<"i", "n">> }

RECURSIVE Join(_)
Join(parts) == IF parts = <<>> THEN <<>> ELSE Head(parts) \o Join(Tail(parts))

TypeNames == {Join(parts) : parts \in SeqsUpTo(NameParts, MaxParts) \ {<<>>}}

\* Plugin name derivation, over every type name of up to MaxParts parts
InitName ==
    /\ InitProcess
    /\ service = NoService
    /\ environ = EmptyDict
    /\ config_file = NoFile
    /\ plugin_modules = RepoPlugins
    /\ ext_modules = RepoExtensions
    /\ typeName \in TypeNames
    /\ derived = NotRead

NextName == ReadName

SpecName == InitName /\ [][NextName]_vars

\* The configuration of one facade: loading it from a file, assigning it,
\* exporting it to the environment, and the cached capabilities meanwhile
InitConfig ==
    /\ InitProcess
    /\ service = NoService
    /\ environ \in Environs
    /\ config_file = NoFile
    /\ plugin_modules = RepoPlugins
    /\ ext_modules = RepoExtensions
    /\ typeName = ExamplePlugin
    /\ derived = NotRead

NextConfig ==
    \/ \E config \in Configs : clients = <<>> /\ ClientApiInit(config)
    \/ \E self \in DOMAIN clients, file \in Files : LoadConfig(self, file)
    \/ \E self \in DOMAIN clients : AssignConfig(self, ClientConfig(EmptyDict))
    \/ \E self \in DOMAIN clients : ExportConfig(self)
    \/ \E self \in DOMAIN clients, cap \in {"docker", "github"}, ctor_ok \in BOOLEAN :
           AccessCap(self, cap, ctor_ok)

SpecConfig == InitConfig /\ [][NextConfig]_vars

\* The SSH capability next to a cached one
InitSsh ==
    /\ InitProcess
    /\ service = NoService
    /\ environ = EmptyDict
    /\ config_file = NoFile
    /\ plugin_modules = RepoPlugins
    /\ ext_modules = RepoExtensions
    /\ typeName = ExamplePlugin
    /\ derived = NotRead

NextSsh ==
    \/ ClientApiInit(ClientConfig(EmptyDict))
    \/ \E self \in DOMAIN clients : AccessCap(self, "docker", TRUE)
    \/ \E self \in DOMAIN clients, hostname \in Hostnames, kwargs \in SshOptions :
           Ssh(self, hostname, kwargs)

SpecSsh == InitSsh /\ [][NextSsh]_vars

\* The start of the command line program, over every plugins directory of
\* MaxModules modules and every configuration file
InitStartup ==
    /\ InitProcess
    /\ service = NoService
    /\ environ \in Environs
    /\ config_file \in Files
    /\ plugin_modules \in [1..MaxModules -> PluginModules]
    /\ ext_modules = RepoExtensions
    /\ typeName = ExamplePlugin
    /\ derived = NotRead

NextStartup == StartupConfig \/ StartupInitialize \/ Main

SpecStartup == InitStartup /\ [][NextStartup]_vars

\* The services, over every service class and every sink, and the wrappers
\* they decorate
InitServices ==
    /\ InitProcess
    /\ service \in {Service(cls, opensearch) :
                       cls \in DOMAIN ServiceClasses, opensearch \in Sinks}
    /\ environ = EmptyDict
    /\ config_file = NoFile
    /\ plugin_modules = RepoPlugins
    /\ ext_modules = RepoExtensions
    /\ typeName = ExamplePlugin
    /\ derived = NotRead

NextServices ==
    \/ \E op \in DOMAIN Wrappers, exc \in VendorExceptions : WrapperOp(op, exc)
    \/ \E action \in UNION {DOMAIN ServiceClasses[cls].ops : cls \in DOMAIN ServiceClasses},
       construct_ok \in BOOLEAN, connect_ok \in BOOLEAN, wrapper_ok \in BOOLEAN,
       disconnect_ok \in BOOLEAN, write_ok1 \in BOOLEAN, write_ok2 \in BOOLEAN :
           ServiceCall(action, construct_ok, connect_ok, wrapper_ok, disconnect_ok,
                       write_ok1, write_ok2)

SpecServices == InitServices /\ [][NextServices]_vars

\* the names and callbacks of the commands registered late
LateCommands == {<<"late", "late_command">>, <<"hello", "hello_again">>,
                 <<"run", "run_again">>}

\* Plugins that register commands after they were handed to the registry
InitCommands ==
    /\ InitProcess
    /\ service = NoService
    /\ environ = EmptyDict
    /\ config_file = NoFile
    /\ plugin_modules = RepoPlugins
    /\ ext_modules = RepoExtensions
    /\ typeName = ExamplePlugin
    /\ derived = NotRead

NextCommands ==
    \/ Initialize(App("plugins"))
    \/ GetInstance
    \/ \E typ \in {ExamplePlugin, Custom_Tool} : RegisterPlugin(typ)
    \/ \E pname \in {PluginName(typ) : typ \in PluginTypes}, c \in LateCommands :
           RegisterCommand(pname, c[1], c[2])

SpecCommands == InitCommands /\ [][NextCommands]_vars

\* the plugins directories the command line program is started with
DispatchDirs ==
    { RepoPlugins, <<HookReturns(ExamplePlugin)>>,
      <<ImportError, HookReturns(ResourceManagerPlugin)>>, <<HookRaises, NoHook>> }

\* The command line program from its start to the end of the command it runs
InitDispatch ==
    /\ InitProcess
    /\ service = NoService
    /\ environ \in Environs
    /\ config_file \in Files
    /\ plugin_modules \in DispatchDirs
    /\ ext_modules = RepoExtensions
    /\ typeName = ExamplePlugin
    /\ derived = NotRead

NextDispatch ==
    \/ StartupConfig
    \/ StartupInitialize
    \/ Main
    \/ \E command \in CoreCommands \cup MountedCommands(groups[App("plugins")]),
          ctor_ok \in BOOLEAN : Dispatch(command, ctor_ok)

SpecDispatch == InitDispatch /\ [][NextDispatch]_vars

\* the statements the operations are called with
Statements ==
    {Select} \cup {Insert(row, returning) : row \in Rows, returning \in BOOLEAN}
             \cup {Update(row, returning) : row \in Rows, returning \in BOOLEAN}
             \cup {Delete(row, returning) : row \in Rows, returning \in BOOLEAN}

\* One PostgreSQLApi object and the database behind it
InitPostgres ==
    /\ InitProcess
    /\ service = NoService
    /\ environ = EmptyDict
    /\ config_file = NoFile
    /\ plugin_modules = RepoPlugins
    /\ ext_modules = RepoExtensions
    /\ typeName = ExamplePlugin
    /\ derived = NotRead

NextPostgres ==
    \/ \E table \in SUBSET Rows : Connect(table)
    \/ \E data \in SeqsUpTo(Rows, MaxRecords), fail_at \in 0..MaxRecords :
           PgCreate(data, fail_at)
    \/ \E statement \in Statements, ok \in BOOLEAN : PgChange(statement, ok)
    \/ \E statement \in Statements, fetch \in BOOLEAN, ok \in BOOLEAN :
           PgExecute(statement, fetch, ok)
    \/ \E data \in SeqsUpTo(Rows, MaxRecords), fail_at \in 0..MaxRecords :
           PgExecuteMany(data, fail_at)

SpecPostgres == InitPostgres /\ [][NextPostgres]_vars

\* the command lines and exit statuses of a batch
CommandLines == {"ls", "make"}
ExitStatuses == {0, 1}

\* Batches of commands on one connection
InitBatch ==
    /\ InitProcess
    /\ service = NoService
    /\ environ = EmptyDict
    /\ config_file = NoFile
    /\ plugin_modules = RepoPlugins
    /\ ext_modules = RepoExtensions
    /\ typeName = ExamplePlugin
    /\ derived = NotRead

NextBatch ==
    \E n \in 0..MaxBatch :
        \E commands \in [1..n -> CommandLines], exits \in [1..n -> ExitStatuses],
           fail_at \in 0..n :
            ExecuteCommands(commands, exits, fail_at)

SpecBatch == InitBatch /\ [][NextBatch]_vars

\* the environment types callers name
EnvironmentTypes == {"production", "staging", "development", "qa"}

\* One EnvironmentTypeManager
InitEnvironment ==
    /\ InitProcess
    /\ service = NoService
    /\ environ = EmptyDict
    /\ config_file = NoFile
    /\ plugin_modules = RepoPlugins
    /\ ext_modules = RepoExtensions
    /\ typeName = ExamplePlugin
    /\ derived = NotRead

NextEnvironment ==
    \/ \E env_type \in EnvironmentTypes : AddEnvironmentType(env_type)
    \/ \E env_type \in EnvironmentTypes : RemoveEnvironmentType(env_type)

SpecEnvironment == InitEnvironment /\ [][NextEnvironment]_vars

\* The whole program
Init == InitRegistry

Next ==
    \/ NextRegistry \/ NextDiscovery \/ NextCapabilities \/ NextExtensions
    \/ NextName \/ NextConfig \/ NextSsh \/ NextStartup \/ NextServices
    \/ NextCommands \/ NextDispatch \/ NextPostgres
    \/ NextBatch \/ NextEnvironment

Spec == Init /\ [][Next]_vars

----------------------------------------------------------------------------
(* Claims *)

\* the last call was an access to capability cap of facade self
Accessed(self, cap) == last.op = "access" /\ last.self = self /\ last.arg = cap

\* C1: on every facade, each cached capability (github, jira, confluence,
\* docker, kubernetes) has been constructed at most once, the cache holds the
\* object the first successful access returned, and every access after the
\* first successful one succeeds and returns that same object.
C1_OneInstancePerCapability ==
    \A self \in DOMAIN clients, cap \in Caps :
        LET c == clients[self] IN
        /\ c.built[cap] <= 1
        /\ cap \in DOMAIN c._apis => c._apis[cap] = c.first[cap]
        /\ (Accessed(self, cap) /\ c.first[cap] # None) =>
               (last.exc = NoExc /\ last.ret = c.first[cap])

\* C1 witness: a second facade answers an access to docker from its cache,
\* without constructing
C1_Witness ==
    /\ Accessed(2, "docker")
    /\ last.exc = NoExc
    /\ ~last.ctor
    /\ last.ret = clients[2].first["docker"]

\* some field capability cap requires is unset in config
ConfigLacks(config, cap) == \E f \in Required[cap] : config[f] = None

\* C2: an access to github, jira or confluence on a facade whose configuration
\* lacks a required field fails with the configuration error (ValueError in the
\* code) and does not invoke the capability's constructor.
C2_MissingConfigIsConfigurationError ==
    (/\ last.op = "access"
     /\ last.arg \in DOMAIN Required
     /\ ConfigLacks(clients[last.self].config, last.arg))
    => (last.exc = "ValueError" /\ ~last.ctor)

\* C3: get_instance raises RuntimeError on every call made while no
\* initialize(app) call has happened; once initialize has been called every
\* get_instance call succeeds and returns the one registry ever constructed.
C3_SingletonAfterInitialize ==
    /\ made <= 1
    /\ last.op = "get_instance" =>
           IF _app = None
           THEN last.exc = "RuntimeError" /\ _instance = None /\ made = 0
           ELSE last.exc = NoExc /\ last.ret = PluginRegistry(1) /\ _instance = last.ret

\* C3 witness: get_instance returns the registry that already holds plugins,
\* after the application was bound a second time
C3_Witness ==
    /\ last.op = "get_instance"
    /\ last.exc = NoExc
    /\ _app = App("other")
    /\ _plugins # EmptyDict
    /\ groups[App("plugins")] # <<>>

\* every command of class typ carries only options typer accepts
Loadable(typ) ==
    \A k \in DOMAIN SetupCommands(typ) : SetupCommands(typ)[k].options \subseteq TyperCommandOptions

\* the names of the sub-groups mounted on application app
Mounted(app) == {groups[app][k].name : k \in DOMAIN groups[app]}

\* the last call was a discovery pass that found the registry initialised
PassRan == last.op \in {"ClientApi", "_load_plugins"} /\ _instance # None

\* three plugin modules of which the first and the third set up plugins of
\* different names that typer accepts, and the hook of the second raises
SecondHookRaises ==
    /\ Len(plugin_modules) >= 3
    /\ plugin_modules[2] = HookRaises
    /\ plugin_modules[1].kind = "ok" /\ Loadable(plugin_modules[1].cls)
    /\ plugin_modules[3].kind = "ok" /\ Loadable(plugin_modules[3].cls)
    /\ PluginName(plugin_modules[1].cls) # PluginName(plugin_modules[3].cls)

\* C4: after a discovery pass over plugin modules of which the second raises in
\* its setup hook, the plugins of the first and of the third module are in the
\* registry and mounted on the host application, nothing of the second module
\* is registered or mounted, and the pass raised nothing.
C4_DiscoverySkipsRaisingHook ==
    (SecondHookRaises /\ PassRan) =>
        /\ last.exc = NoExc
        /\ \A i \in {1, 3} :
               LET name == PluginName(plugin_modules[i].cls) IN
               /\ name \in DOMAIN _plugins
               /\ _plugins[name].cls = plugin_modules[i].cls
               /\ _plugins[name].module = i
               /\ name \in Mounted(_app)
        /\ \A name \in DOMAIN _plugins : _plugins[name].module # 2
        /\ Mounted(_app) = DOMAIN _plugins
        /\ Len(groups[_app]) = Cardinality(DOMAIN _plugins)

\* C4 witness: such a pass has run and reported the failure of the second module
C4_Witness ==
    /\ SecondHookRaises
    /\ PassRan
    /\ last.op = "_load_plugins"
    /\ Cardinality(DOMAIN _plugins) = 2
    /\ \E k \in DOMAIN last.out : last.out[k][1] = 2

\* C5: after the extension discovery of a facade's construction, the facade's
\* extension registry holds exactly the modules whose import and whose
\* setup_extension hook succeeded, each under its own module name; a module
\* that fails to import or whose hook raises has no entry, and the discovery
\* raised nothing.
C5_ExtensionDiscoverySkipsFailures ==
    last.op = "ClientApi" =>
        LET exts == clients[last.self]._extensions IN
        /\ last.exc = NoExc
        /\ \A i \in DOMAIN ext_modules :
               LET name == ExtensionModuleNames[i] IN
               IF ext_modules[i].kind = "ok"
               THEN name \in DOMAIN exts /\ exts[name] = Extension(name, last.self)
               ELSE name \notin DOMAIN exts
        /\ DOMAIN exts \subseteq {ExtensionModuleNames[i] : i \in DOMAIN ext_modules}

\* C5 witness: the first module fails to import, the second is registered
C5_Witness ==
    /\ last.op = "ClientApi"
    /\ Len(ext_modules) >= 2
    /\ ext_modules[1] = ImportError
    /\ ext_modules[2].kind = "ok"
    /\ DOMAIN clients[last.self]._extensions = {ExtensionModuleNames[2]}

\* C6: a register_plugin call with a plugin whose derived name is already in
\* the registry raises ValueError and changes neither the registry mapping nor
\* the sub-groups mounted on any application.
C6_DuplicatePluginRejected ==
    [][(last'.op = "register_plugin" /\ PluginName(last'.arg.cls) \in DOMAIN _plugins)
       => (last'.exc = "ValueError" /\ _plugins' = _plugins /\ groups' = groups)]_vars

\* C6 witness: a second plugin of a registered name was rejected and the
\* registry still holds the first
C6_Witness ==
    /\ last.op = "register_plugin"
    /\ last.exc = "ValueError"
    /\ _plugins[PluginName(last.arg.cls)].id # last.arg.id
    /\ _plugins[PluginName(last.arg.cls)].module # 0

\* C7: a register_extension call with a registered name raises ValueError; no
\* call replaces or removes a registered extension; and get_extension of a
\* registered name returns the object registered first.
C7_ExtensionsNeverReplaced ==
    [][/\ \A self \in DOMAIN clients : \A name \in DOMAIN clients[self]._extensions :
              /\ name \in DOMAIN clients'[self]._extensions
              /\ clients'[self]._extensions[name] = clients[self]._extensions[name]
       /\ (/\ last'.op = "register_extension"
           /\ last'.arg[1] \in DOMAIN clients[last'.self]._extensions)
          => last'.exc = "ValueError"
       /\ (/\ last'.op = "get_extension"
           /\ last'.arg \in DOMAIN clients[last'.self]._extensions)
          => last'.ret = clients[last'.self]._extensions[last'.arg]]_vars

\* C7 witness: another object was offered under a registered name, and the
\* name still holds the first
C7_Witness ==
    /\ last.op = "register_extension"
    /\ last.exc = "ValueError"
    /\ clients[last.self]._extensions[last.arg[1]] # last.arg[2]
    /\ clients[last.self]._extensions[last.arg[1]] \in ExtObjects

\* the sub-groups mounted on any application: <<application, position>>
AllMounted == UNION {{<<a, k>> : k \in DOMAIN groups[a]} : a \in Apps}

\* what register_plugin registers on the sub-group for one plugin command
AsRegistered(cmd) ==
    [name |-> cmd.name, help |-> cmd.help, options |-> cmd.options,
     callback |-> cmd.callback]

s_resource_manager ==
    <<"r", "e", "s", "o", "u", "r", "c", "e", "-", "m", "a", "n", "a", "g", "e", "r">>
s_resourcemanager ==
    <<"r", "e", "s", "o", "u", "r", "c", "e", "m", "a", "n", "a", "g", "e", "r">>
s_example == <<"e", "x", "a", "m", "p", "l", "e">>

\* C9 as stated: a plugin of type ResourceManagerPlugin is registered under
\* "resource-manager" and one of type ExamplePlugin under "example".
C9_ResourceManagerIsDashed ==
    \A name \in DOMAIN _plugins :
        /\ _plugins[name].cls = ResourceManagerPlugin => name = s_resource_manager
        /\ _plugins[name].cls = ExamplePlugin => name = s_example

\* C9 as amended: a plugin of type ResourceManagerPlugin is registered under
\* "resourcemanager" (the words of a type name are not separated) and one of
\* type ExamplePlugin under "example".
C9_ResourceManagerIsJoined ==
    \A name \in DOMAIN _plugins :
        /\ _plugins[name].cls = ResourceManagerPlugin => name = s_resourcemanager
        /\ _plugins[name].cls = ExamplePlugin => name = s_example

\* C9 witness: discovery has registered both plugins of the repository
C9_Witness ==
    /\ \E name \in DOMAIN _plugins :
           _plugins[name].cls = ResourceManagerPlugin /\ _plugins[name].module = 2
    /\ \E name \in DOMAIN _plugins :
           _plugins[name].cls = ExamplePlugin /\ _plugins[name].module = 1

Uppercase == DOMAIN LowerOf

\* C10: the name of a plugin is its type name lowercased, without its last six
\* characters exactly when the lowercased type name ends with "plugin", and
\* with a dash wherever an underscore was; it holds no uppercase letter and no
\* underscore.
C10_NameDerivation ==
    derived # NotRead =>
        LET low == Lower(typeName)
            n == IF EndsWith(low, s_plugin) THEN Len(low) - 6 ELSE Len(low)
            name == derived.v
        IN  /\ Len(name) = n
            /\ \A i \in 1..n : name[i] = (IF low[i] = "_" THEN "-" ELSE low[i])
            /\ \A i \in 1..Len(name) : name[i] \notin Uppercase \cup {"_"}

\* C10 witness: the name of a type in which "plugin" occurs twice, after an
\* underscore, has been read
C10_Witness ==
    /\ derived # NotRead
    /\ typeName = s_Plugin \o <<"_">> \o s_Plugin
    /\ derived.v = s_plugin \o <<"-">>

\* C11: an export_config call leaves, for every configuration field that is
\* set, an environment entry named after the field whose value is the field's
\* value, and for every field that is unset it creates no entry and changes
\* none.
C11_ExportReproducesSetFields ==
    [][last'.op = "export_config" =>
          LET config == clients[last'.self].config IN
          /\ \A f \in ConfigFields : config[f] # None =>
                 (f \in DOMAIN environ' /\ environ'[f] = config[f].v)
          /\ \A f \in ConfigFields : config[f] = None =>
                 /\ f \in DOMAIN environ' <=> f \in DOMAIN environ
                 /\ f \in DOMAIN environ => environ'[f] = environ[f]]_vars

\* C11 witness: the empty Jira token was exported as the empty string, while
\* the entries of the unset fields are as they were: the token an earlier
\* export left, the Jira URL the process started with, and none for the
\* Kubernetes context
C11_Witness ==
    /\ last.op = "export_config"
    /\ clients[last.self].config["JIRA_URL"] = None
    /\ clients[last.self].config["GITHUB_TOKEN"] = None
    /\ clients[last.self].config["JIRA_TOKEN"] = Str("")
    /\ {"JIRA_TOKEN", "GITHUB_TOKEN", "JIRA_URL"} \subseteq DOMAIN environ
    /\ environ["JIRA_TOKEN"] = ""
    /\ environ["GITHUB_TOKEN"] = "ghp2"
    /\ environ["JIRA_URL"] = "https://old"
    /\ "KUBE_CONTEXT" \notin DOMAIN environ

\* C12: replacing the configuration of a facade (load_config, or an
\* assignment) leaves its capability cache as it is, and every access to a
\* capability that is in the cache returns the cached instance without reading
\* the configuration and without constructing.
C12_ConfigChangeKeepsCapabilities ==
    [][/\ last'.op \in {"load_config", "assign_config"} =>
              /\ clients'[last'.self]._apis = clients[last'.self]._apis
              /\ clients'[last'.self].built = clients[last'.self].built
       /\ (last'.op = "access" /\ last'.arg \in DOMAIN clients[last'.self]._apis) =>
              /\ last'.exc = NoExc
              /\ ~last'.ctor
              /\ last'.ret = clients[last'.self]._apis[last'.arg]
              /\ clients'[last'.self]._apis = clients[last'.self]._apis
              /\ clients'[last'.self].built = clients[last'.self].built]_vars

\* C12 witness: docker was in the cache when the configuration was replaced
\* by a different one, and an access afterwards returned the instance
\* constructed first
C12_Witness ==
    /\ Accessed(1, "docker")
    /\ "docker" \in clients[1].stale
    /\ last.exc = NoExc /\ ~last.ctor
    /\ last.ret = clients[1].first["docker"]
    /\ clients[1].built["docker"] = 1

\* C16: a load_config call that succeeds leaves every configuration field with
\* the value the file gives it and every field the file lacks unset, whatever
\* the configuration was before; a call on a file that cannot be read or
\* parsed, or whose content the configuration model rejects, raises and leaves
\* the configuration as it was.
C16_LoadConfigReplacesWholesale ==
    [][last'.op = "load_config" =>
          LET file == last'.arg
              old == clients[last'.self].config
              new == clients'[last'.self].config
          IN  IF last'.exc = NoExc
              THEN /\ file.kind = "mapping"
                   /\ \A f \in ConfigFields :
                          new[f] = IF f \in DOMAIN file.data THEN file.data[f] ELSE None
              ELSE new = old
                   /\ (file.kind # "mapping" \/
                       \E f \in DOMAIN file.data \cap ConfigFields :
                           file.data[f].t \notin {"str", "None"})]_vars

\* C16 witness: a file without GITHUB_TOKEN was loaded into a facade that held
\* (and had exported) a token, and the token is unset now
C16_Witness ==
    /\ last.op = "load_config"
    /\ last.exc = NoExc
    /\ "GITHUB_TOKEN" \notin DOMAIN last.arg.data
    /\ "GITHUB_TOKEN" \in DOMAIN environ /\ environ["GITHUB_TOKEN"] = "ghp"
    /\ clients[last.self].config["GITHUB_TOKEN"] = None
    /\ clients[last.self].config["JIRA_URL"] = Str("https://jira2")

\* the arguments of an ssh call are ones SSHApi.__init__ accepts
SshCallAccepted(arg) ==
    "username" \in DOMAIN arg.kwargs /\ DOMAIN arg.kwargs \subseteq SSHApiParams

\* C13: an ssh call leaves the capability cache of every facade as it is; a
\* call whose options SSHApi accepts returns an SSHApi that no earlier call
\* returned, constructed for the given host with the given options (and the
\* defaults for the others); a call whose options SSHApi does not accept
\* raises TypeError and constructs nothing.
C13_SshNeverCached ==
    [][last'.op = "ssh" =>
          /\ clients' = clients
          /\ IF SshCallAccepted(last'.arg)
             THEN /\ last'.exc = NoExc
                  /\ last'.ret.t = "SSHApi"
                  /\ \A k \in DOMAIN sshs : sshs[k].id # last'.ret.id
                  /\ sshs' = Append(sshs, last'.ret)
                  /\ last'.ret.hostname = last'.arg.hostname
                  /\ \A o \in SSHApiParams :
                         last'.ret[o] = IF o \in DOMAIN last'.arg.kwargs
                                        THEN last'.arg.kwargs[o] ELSE SSHApiDefaults[o]
             ELSE last'.exc = "TypeError" /\ sshs' = sshs]_vars

\* C13 witness: the second of two calls with the same host and options, on a
\* facade with docker in its cache, returned another instance than the first
C13_Witness ==
    /\ last.op = "ssh"
    /\ last.exc = NoExc
    /\ Len(sshs) = 2
    /\ sshs[2] = last.ret
    /\ sshs[1] # sshs[2]
    /\ [sshs[1] EXCEPT !.id = 0] = [sshs[2] EXCEPT !.id = 0]
    /\ DOMAIN clients[last.self]._apis = {"docker"}

\* what a discovery pass printed about plugin modules
PluginFailures == IF last.op = "ClientApi" THEN last.out[1] ELSE last.out

\* C14: a discovery pass (_load_plugins, alone or within the construction of a
\* facade) made while the registry has no host application raises nothing,
\* imports no plugin module and calls no setup hook (nothing is registered,
\* mounted or reported as failed), and leaves the registry uninitialised: no
\* registry object is constructed.
C14_UninitialisedRegistrySkipsLoading ==
    [][(last'.op \in {"ClientApi", "_load_plugins"} /\ _app = None) =>
          /\ last'.exc = NoExc
          /\ PluginFailures' = <<>>
          /\ _plugins' = EmptyDict /\ _plugins' = _plugins
          /\ groups' = groups
          /\ _app' = None /\ _instance' = None /\ made' = 0
          /\ last'.op = "ClientApi" => Len(clients') = Len(clients) + 1]_vars

\* C14 witness: a facade was constructed and its discovery pass skipped, with
\* no host application, over a plugins directory of a module that sets up a
\* plugin and one whose hook raises
C14_Witness ==
    /\ last.op = "ClientApi"
    /\ _app = None /\ _instance = None
    /\ Len(clients) = 1
    /\ plugin_modules[1] = HookReturns(ExamplePlugin)
    /\ plugin_modules[2] = HookRaises
    /\ last.out[1] = <<>>

\* plugin module i sets up a plugin that register_plugin accepts: its hook
\* returns, typer takes its commands, and no module before it gives the name
Registrable(i) ==
    /\ plugin_modules[i].kind = "ok"
    /\ Loadable(plugin_modules[i].cls)
    /\ \A k \in 1..(i - 1) :
           plugin_modules[k].kind = "ok" =>
               PluginName(plugin_modules[k].cls) # PluginName(plugin_modules[i].cls)

\* C15: when the command dispatcher runs, every plugin module whose hook sets
\* up a registrable plugin has its plugin in the registry and mounted on the
\* plugins application, whether or not the configuration file exists.
C15_PluginsRegisteredAtDispatch ==
    pc = "dispatch" =>
        \A i \in DOMAIN plugin_modules :
            Registrable(i) =>
                LET name == PluginName(plugin_modules[i].cls) IN
                /\ name \in DOMAIN _plugins
                /\ _plugins[name].module = i
                /\ name \in Mounted(App("plugins"))

\* C17: a service operation invoked on a service with a log sink writes exactly
\* one entry, of status success when the wrapper calls returned and failed when
\* one raised; when they returned the operation returns the wrapper's result,
\* and when one raised the operation raises that same exception.
C17_OneLogEntryPerInvocation ==
    (last.op = "service" /\ service.opensearch # None) =>
        /\ Len(last.out) = 1
        /\ last.out[1].metadata.status =
               (IF last.arg.returned THEN "success" ELSE "failed")
        /\ last.arg.returned => (last.exc = NoExc /\ last.ret = last.arg.result)
        /\ ~last.arg.returned => last.exc = last.arg.raised

\* C18: whenever the vendor call inside a wrapper operation (or constructor)
\* raises, the caller sees the generic Exception, and its message holds the
\* text of the vendor exception.
C18_NoVendorExceptionEscapes ==
    last.op = "wrapper" =>
        /\ last.exc = "Exception"
        /\ last.ret.text = VendorText(last.arg.vendor)

\* C19: a get_extension call raises nothing, whatever the name and the state
\* of the facade; it returns the object registered under the name when there
\* is one and None otherwise; and it changes nothing of the facades, the
\* registry or the environment.
C19_GetExtensionNeverFails ==
    [][last'.op = "get_extension" =>
          LET exts == clients[last'.self]._extensions IN
          /\ last'.exc = NoExc
          /\ last'.ret = IF last'.arg \in DOMAIN exts THEN exts[last'.arg] ELSE None
          /\ UNCHANGED <<clients, _app, _instance, _plugins, groups, made, environ>>]_vars

\* C19 witness: a name nobody registered was looked up on a facade that holds
\* an extension under another name, and None came back
C19_Witness ==
    /\ last.op = "get_extension"
    /\ last.arg = "absent"
    /\ last.exc = NoExc
    /\ last.ret = None
    /\ clients[last.self]._extensions # EmptyDict
    /\ last.arg \notin DOMAIN clients[last.self]._extensions

\* the names of the commands of a sequence of commands
CommandNames(cmds) == {cmds[i].name : i \in DOMAIN cmds}

\* C20: a register_command call puts the command into the commands of the
\* plugin it is called on and changes nothing else: the sub-groups mounted on
\* every application, the names of the registry, the other plugins and the
\* other commands of the plugin are as before; a command registered after the
\* plugin was registered is in plugin.commands and not in its sub-group.
C20_RegisterCommandOnlyLocal ==
    [][last'.op = "register_command" =>
          LET pname == last'.arg.plugin
              before == _plugins[pname].commands
              after == _plugins'[pname].commands
          IN  /\ groups' = groups
              /\ _app' = _app /\ _instance' = _instance /\ made' = made
              /\ DOMAIN _plugins' = DOMAIN _plugins
              /\ \A n \in DOMAIN _plugins \ {pname} : _plugins'[n] = _plugins[n]
              /\ [_plugins'[pname] EXCEPT !.commands = before] = _plugins[pname]
              /\ \E i \in DOMAIN after :
                     /\ after[i] = PluginCommand(last'.arg.name, last'.arg.callback, "", {})
                     /\ \A k \in DOMAIN after \ {i} : after[k].name # last'.arg.name
              /\ \A k \in DOMAIN before :
                     before[k].name # last'.arg.name =>
                         \E i \in DOMAIN after : after[i] = before[k]
              /\ CommandNames(after) = CommandNames(before) \cup {last'.arg.name}]_vars

\* C20 witness: the command "late" was registered on the example plugin after
\* the registry had mounted its sub-group; the plugin in the registry has it
\* and the sub-group has not
C20_Witness ==
    /\ last.op = "register_command"
    /\ last.arg.name = "late"
    /\ last.arg.plugin = s_example
    /\ "late" \in CommandNames(_plugins[s_example].commands)
    /\ \E k \in DOMAIN groups[App("plugins")] :
           /\ groups[App("plugins")][k].name = s_example
           /\ CommandNames(groups[App("plugins")][k].commands) =
                  {"hello", "create-issue"}

\* the capability caches of the facades
Caches == [i \in DOMAIN clients |-> clients[i]._apis]

C22_PluginsLoadedOncePerProcess ==
    (last.op = "main" /\ _app # None) =>
        \A k \in DOMAIN last.out : last.out[k][2] # "ValueError"

\* the environment variables get_client reads
EnvVariables ==
    {"GITHUB_TOKEN", "JIRA_URL", "JIRA_USERNAME", "JIRA_TOKEN", "CONFLUENCE_URL",
     "CONFLUENCE_USERNAME", "CONFLUENCE_TOKEN", "KUBE_CONFIG_PATH", "KUBE_CONTEXT"}

\* C23: the facade get_client constructs holds, in the field of each variable
\* it reads that is set in the environment, the value of that variable
C23_GetClientReadsEnvironment ==
    (last.op = "main" /\ config_file = NoFile) =>
        \A f \in EnvVariables \cap DOMAIN environ :
            clients[last.self].config[f] = Str(environ[f])

\* the last call was service operation action, and it reached the wrapper call
Operated(action) ==
    /\ last.op = "service"
    /\ last.arg.action = action
    /\ \E k \in DOMAIN last.arg.events : last.arg.events[k] = "operate"

\* C24: when the file transfer of SSHService.copy_file did not succeed, every
\* log entry the call writes has status failed and the caller gets an
\* exception or a result that says so; an entry of status success is written
\* only when the file was copied
C24_CopyFileRecordsOutcome ==
    Operated("copy_file") =>
        /\ ~last.arg.vendor_ok =>
               /\ \A k \in DOMAIN last.out : last.out[k].metadata.status = "failed"
               /\ last.exc # NoExc \/ ~last.ret.success
        /\ (\E k \in DOMAIN last.out : last.out[k].metadata.status = "success") =>
               last.arg.vendor_ok

\* the calls an SSHService operation makes on its SSHApi object, in order
SshOrder == <<"construct", "connect", "operate", "disconnect">>

\* C26: an SSHService operation constructs, connects, operates and
\* disconnects in this order; it disconnects exactly once when connect
\* succeeded, whether the remote operation or the success entry then returns
\* or raises, and not at all when construction or connect failed
C26_DisconnectOnceIffConnected ==
    (last.op = "service" /\ service.cls = "SSHService") =>
        /\ \E n \in 0..Len(SshOrder) : last.arg.events = SubSeq(SshOrder, 1, n)
        /\ Cardinality({k \in DOMAIN last.arg.events :
                           last.arg.events[k] = "disconnect"})
               = IF last.arg.raised \in {"ConstructError", "ConnectError"} THEN 0 ELSE 1

\* execute_command raised after connect succeeded, and the connection was closed
C26_Witness ==
    /\ Operated("execute_command")
    /\ last.arg.raised = "WrapperError"
    /\ last.exc = "WrapperError"
    /\ last.arg.events = SshOrder

\* C28: every data-changing operation of PostgreSQLApi ends its transaction
\* before it returns or raises: no transaction is open afterwards, the rows
\* are as before when it raised, and a create that returned stored all its
\* records
C28_OperationsEndTheirTransaction ==
    last.op = "postgres" =>
        /\ ~conn.in_txn
        /\ last.exc # NoExc => conn.table = last.arg.before.table
        /\ (last.exc = NoExc /\ last.arg.method = "create") =>
               {last.arg.arg[k] : k \in DOMAIN last.arg.arg} \subseteq conn.table

\* every field capability cap requires is set to a non-empty value in config
ConfigComplete(config, cap) == \A f \in Required[cap] : Truthy(config[f])

\* C25: a capability access that fails leaves the cache of the facade as it
\* was, without an entry for the capability; and an access to a validated
\* capability that is not in the cache, made when the configuration holds
\* every field the capability requires, passes the validation and calls the
\* constructor
C25_FailedAccessIsRetried ==
    [][last'.op = "access" =>
          /\ last'.exc # NoExc =>
                 /\ clients'[last'.self]._apis = clients[last'.self]._apis
                 /\ last'.arg \notin DOMAIN clients'[last'.self]._apis
          /\ (/\ last'.arg \in DOMAIN Required
              /\ last'.arg \notin DOMAIN clients[last'.self]._apis
              /\ ConfigComplete(clients[last'.self].config, last'.arg)) =>
                 /\ last'.exc \notin {"AttributeError", "ValueError"}
                 /\ last'.ctor]_vars

\* C27: the list execute_commands returns holds, in order, the results of a
\* prefix of the commands; every entry but the last has success true, and the
\* list is shorter than the command list only if its last entry has success
\* false
C27_ExecuteCommandsStopsAtFirstFailure ==
    (last.op = "execute_commands" /\ last.exc = NoExc) =>
        LET commands == last.arg.commands
            results == last.ret
        IN  /\ Len(results) <= Len(commands)
            /\ \A k \in DOMAIN results :
                   /\ results[k].command = commands[k]
                   /\ results[k].exit_code = last.arg.exits[k]
                   /\ results[k].success = (last.arg.exits[k] = 0)
                   /\ k < Len(results) => results[k].success
            /\ Len(results) < Len(commands) =>
                   (results # <<>> /\ ~results[Len(results)].success)

\* a batch of three commands stopped after its second, which failed
C27_Witness ==
    /\ last.op = "execute_commands"
    /\ last.exc = NoExc
    /\ Len(last.arg.commands) = 3
    /\ Len(last.ret) = 2
    /\ last.ret[1].success
    /\ ~last.ret[2].success

\* the last step called get_client()
GetClientCalled ==
    \/ last.op = "main"
    \/ last.op = "startup_config" /\ config_file # NoFile
    \/ last.op = "dispatch" /\ CommandBody(last.arg.callback).get_client

Elements(list) == {list[k] : k \in DOMAIN list}

\* the elements of a list other than x, in their order
Without(list, x) == SelectSeq(list, LAMBDA y : y # x)

\* C30: the list of an EnvironmentTypeManager never holds a type twice; adding
\* an absent type puts it last and keeps the others in their order, removing
\* a present type takes it out and keeps the others in their order, adding a
\* present type and removing an absent one leave the list as it is; so the
\* list holds the types added and not removed since, in the order of their
\* latest first addition
C30_EnvironmentTypesOrderedSet ==
    [][/\ Cardinality(Elements(environment_types')) = Len(environment_types')
       /\ last'.op = "add_environment_type" =>
              /\ Elements(environment_types') =
                     Elements(environment_types) \cup {last'.arg}
              /\ Without(environment_types', last'.arg) =
                     Without(environment_types, last'.arg)
              /\ last'.arg \notin Elements(environment_types) =>
                     environment_types'[Len(environment_types')] = last'.arg
              /\ last'.arg \in Elements(environment_types) =>
                     environment_types' = environment_types
       /\ last'.op = "remove_environment_type" =>
              /\ environment_types' = Without(environment_types, last'.arg)
              /\ last'.arg \notin Elements(environment_types) =>
                     environment_types' = environment_types]_vars

\* a removal has left two types in the list, in the order they were added
C30_Witness ==
    /\ last.op = "remove_environment_type"
    /\ last.arg = "staging"
    /\ environment_types = <<"production", "qa">>

====
